---- MODULE Spec2Model ----
(***************************************************************************)
(* A model of pgf2json (src/src/lib.rs): the chart parser of `mod parse`,   *)
(* the linearizer, and the binary decoder of PGF files.                     *)
(*                                                                         *)
(* Strings are sequences of characters, so that joining tokens with a      *)
(* space and splitting a string on whitespace are computed, not assumed.   *)
(* Rust's Vec is a sequence read at 0-based indices (VecGet), HashMap a    *)
(* function whose DOMAIN is the set of keys, HashSet a set; the order in   *)
(* which a HashMap or a HashSet is iterated is unspecified in Rust and is  *)
(* a choice the actions make.                                              *)
(***************************************************************************)
EXTENDS Integers, Sequences, FiniteSets, TLC

VARIABLES pgf, st, res, output

vars == <<pgf, st, res, output>>

----------------------------------------------------------------------------
(* Option, Result, Vec and HashMap *)

None == [some |-> FALSE]

Some(v) == [some |-> TRUE, val |-> v]

Ok(v) == [ok |-> TRUE, val |-> v]

Err(kind, msg) == [ok |-> FALSE, err |-> [kind |-> kind, msg |-> msg]]

\* Vec::get(i as usize): a negative i32 casts to an index past every vector
VecGet(v, i) == IF i >= 0 /\ i < Len(v) THEN Some(v[i + 1]) ELSE None

Range(s) == {s[i] : i \in 1..Len(s)}

EmptyMap == <<>>

\* map.entry(k).or_insert_with(Vec::new).push(x)
MapPush(m, k, x) ==
    IF k \in DOMAIN m
    THEN [m EXCEPT ![k] = Append(@, x)]
    ELSE [j \in DOMAIN m \cup {k} |-> IF j = k THEN <<x>> ELSE m[j]]

\* HashMap::get
MapGet(m, k) == IF k \in DOMAIN m THEN Some(m[k]) ELSE None

\* the orders in which a HashSet or the keys of a HashMap can be iterated
Perms(S) ==
    {p \in [1..Cardinality(S) -> S] : \A i, j \in 1..Cardinality(S) : p[i] = p[j] => i = j}

----------------------------------------------------------------------------
(* Strings *)

SP == " "

\* [String].join(" ")
RECURSIVE Join(_)
Join(toks) ==
    IF Len(toks) = 0 THEN <<>>
    ELSE IF Len(toks) = 1 THEN toks[1]
    ELSE toks[1] \o <<SP>> \o Join(Tail(toks))

\* str::split_whitespace: the maximal runs of non-whitespace characters
RECURSIVE SplitFrom(_, _, _)
SplitFrom(s, i, cur) ==
    IF i > Len(s) THEN (IF cur = <<>> THEN <<>> ELSE <<cur>>)
    ELSE IF s[i] = SP
         THEN (IF cur = <<>> THEN <<>> ELSE <<cur>>) \o SplitFrom(s, i + 1, <<>>)
         ELSE SplitFrom(s, i + 1, Append(cur, s[i]))

split_whitespace(s) == SplitFrom(s, 1, <<>>)

----------------------------------------------------------------------------
(* Expressions, types, symbols, productions *)

Fun(c) == [tag |-> "Fun", cid |-> c]

App(e1, e2) == [tag |-> "App", fn |-> e1, arg |-> e2]

Meta == [tag |-> "Meta"]

StrLit(s) == [tag |-> "Str", s |-> s]

ImplArg(e) == [tag |-> "ImplArg", e |-> e]

IntLit(n) == [tag |-> "Int", n |-> n]

FloatLit(x) == [tag |-> "Float", x |-> x]

DoubleLit(x) == [tag |-> "Double", x |-> x]

Abs(b, v, body) == [tag |-> "Abs", binding |-> b, var |-> v, body |-> body]

Typed(e, t) == [tag |-> "Typed", e |-> e, ty |-> t]

mk_type(hypos, cat, exprs) == [hypos |-> hypos, category |-> cat, exprs |-> exprs]

start_cat(g) == mk_type(<<>>, g.startcat, <<>>)

SymKS(t) == [tag |-> "SymKS", tok |-> t]

SymCat(d, r) == [tag |-> "SymCat", d |-> d, r |-> r]

SymLit(d, r) == [tag |-> "SymLit", d |-> d, r |-> r]

SymNE == [tag |-> "SymNE"]

Apply(fid, args) == [tag |-> "Apply", fid |-> fid, args |-> args]

Coerce(arg) == [tag |-> "Coerce", arg |-> arg]

PArg(hypos, fid) == [hypos |-> hypos, fid |-> fid]

CncFun(name, lins) == [name |-> name, lins |-> lins]

CncCat(s, e) == [start |-> s, end |-> e]

----------------------------------------------------------------------------
(* Grammars.  Food is the grammar of tests::create_test_pgf; the others keep *)
(* its abstract syntax and vary the concrete syntax, so that Apply and       *)
(* Coerce productions, SymCat slots, functions with several linearization    *)
(* fields and functions sharing a name all occur.                            *)

T_is == <<"i", "s">>

T_this == <<"t", "h", "i", "s">>

T_x == <<"x">>

FoodAbstract ==
    [funs |-> [f \in {"Pred", "This"} |->
                 [ty |-> mk_type(<<>>, IF f = "Pred" THEN "Comment" ELSE "Item", <<>>),
                  weight |-> 1, equations |-> None, prob |-> 1]],
     cats |-> [c \in {"Comment", "Item"} |-> [hypos |-> <<>>, funs |-> <<>>]]]

FoodCncCats == [c \in {"Comment", "Item"} |-> IF c = "Comment" THEN CncCat(0, 1) ELSE CncCat(1, 2)]

MkConcrete(productions, cncfuns, sequences) ==
    [cflags |-> EmptyMap, productions |-> productions, cncfuns |-> cncfuns,
     sequences |-> sequences, cnccats |-> FoodCncCats, total_cats |-> 2]

MkPgf(cnc) ==
    [absname |-> "Food", concretes |-> [l \in {"FoodEng"} |-> cnc],
     abstract |-> FoodAbstract, startcat |-> "Comment", flags |-> EmptyMap]

\* tests::create_test_pgf: no productions at all
CncTest ==
    MkConcrete(EmptyMap,
               <<CncFun("Pred", <<0>>), CncFun("This", <<1>>)>>,
               <<(<<SymKS(T_is)>>), (<<SymKS(T_this)>>)>>)

\* one Apply production per category
CncApply ==
    MkConcrete([f \in {0, 1} |-> {Apply(f, <<>>)}],
               <<CncFun("Pred", <<0>>), CncFun("This", <<1>>)>>,
               <<(<<SymKS(T_is)>>), (<<SymKS(T_this)>>)>>)

\* Pred's sequence has a SymCat slot filled from the goal fid; This is empty
CncSlot ==
    MkConcrete([f \in {0} |-> {Apply(0, <<PArg(<<>>, 0)>>), Apply(1, <<>>)}],
               <<CncFun("Pred", <<0>>), CncFun("This", <<1>>)>>,
               <<(<<SymKS(T_is), SymCat(0, 0)>>), <<>>, (<<SymLit(0, 0)>>)>>)

\* fid 1 is a coercion of fid 0; sequence 0 is empty
CncCoerce ==
    MkConcrete([f \in {0, 1} |-> IF f = 0 THEN {Apply(0, <<>>)} ELSE {Coerce(0)}],
               <<CncFun("Pred", <<1>>), CncFun("This", <<1>>)>>,
               <<<<>>, (<<SymKS(T_is)>>)>>)

\* as CncCoerce, with a single concrete function
CncCoerceOne ==
    MkConcrete([f \in {0, 1} |-> IF f = 0 THEN {Apply(0, <<>>)} ELSE {Coerce(0)}],
               <<CncFun("Pred", <<1>>)>>,
               <<<<>>, (<<SymKS(T_is)>>)>>)

\* two concrete functions of the same name under the goal fid
CncSameName ==
    MkConcrete([f \in {0} |-> {Apply(0, <<>>), Apply(1, <<>>)}],
               <<CncFun("Pred", <<0>>), CncFun("Pred", <<0>>)>>,
               <<(<<SymKS(T_is)>>), (<<SymKS(T_this)>>)>>)

\* Pred has two linearization fields and a second concrete function of its name;
\* This has no linearization field that exists
CncFields ==
    MkConcrete([f \in {0} |-> {Apply(0, <<>>)}],
               <<CncFun("Pred", <<0, 1>>), CncFun("This", <<5>>), CncFun("Pred", <<1>>)>>,
               <<(<<SymKS(T_is)>>), (<<SymKS(T_this), SymNE>>)>>)

\* Pred's sequence is two SymCat slots, both filled from the goal fid; This is empty
CncTwoSlots ==
    MkConcrete([f \in {0} |-> {Apply(0, <<PArg(<<>>, 0), PArg(<<>>, 0)>>), Apply(1, <<>>)}],
               <<CncFun("Pred", <<0>>), CncFun("This", <<1>>)>>,
               <<(<<SymCat(0, 0), SymCat(1, 0)>>), <<>>>>)

\* Pred, under the fid of Item, has a SymCat slot for the fid of Comment, under
\* which This is empty
CncForeignSlot ==
    MkConcrete([f \in {0, 1} |-> IF f = 1 THEN {Apply(0, <<PArg(<<>>, 0)>>)}
                                          ELSE {Apply(1, <<>>)}],
               <<CncFun("Pred", <<0>>), CncFun("This", <<1>>)>>,
               <<(<<SymCat(0, 0)>>), <<>>>>)

Grammars ==
    {MkPgf(c) : c \in {CncTest, CncApply, CncSlot, CncCoerce, CncCoerceOne,
                       CncSameName, CncFields, CncTwoSlots, CncForeignSlot}}

Languages == {"FoodEng", "NonExistentLang"}

CatNames == {"Comment", "Item", "NonExistentCat"}

Tokens == {T_is, T_this, T_x}

\* the longest token list fed to one parse state
MaxTokens == 3

----------------------------------------------------------------------------
(* mod parse: the chart parser *)

\* an item that is born with a tree
Item_Treed(fid, seqid, dot, args, tree) ==
    [fid |-> fid, seqid |-> seqid, dot |-> dot, args |-> args, tree |-> Some(Meta)]

Item(fid, seqid, dot, args, tree) ==
    [fid |-> fid, seqid |-> seqid, dot |-> dot, args |-> args, tree |-> tree]

\* the fallback of FirstLin taken every time
FirstLin_Zero(cnc, fid) == 0

\* cnc.cncfuns.get(fid).map(|f| f.lins.get(0).copied().unwrap_or(0)).unwrap_or(0)
FirstLin(cnc, fid) ==
    LET f == VecGet(cnc.cncfuns, fid)
    IN  IF f.some
        THEN (LET l == VecGet(f.val.lins, 0) IN IF l.some THEN l.val ELSE 0)
        ELSE 0

\* the loop of init_state over productions[cat_id], read in the order iter
RECURSIVE SeedItems(_, _, _, _, _)
SeedItems(cnc, cat_id, iter, i, active) ==
    IF i > Len(iter) THEN active
    ELSE SeedItems(cnc, cat_id, iter, i + 1,
             IF iter[i].tag = "Apply"
             THEN MapPush(active, cat_id,
                          Item(iter[i].fid, FirstLin(cnc, iter[i].fid), 0, <<>>, None))
             ELSE active)

\* init_state that stores the requested category as the start category of its grammar
InitOk_Restarted(g, lang, typ, iter) ==
    LET cnc == g.concretes[lang]
        cat_id == cnc.cnccats[typ.category].start
    IN  Ok([kind |-> "state", pgf |-> [g EXCEPT !.startcat = typ.category],
            lang |-> lang, typ |-> typ,
            active_items |->
                IF cat_id \in DOMAIN cnc.productions
                THEN SeedItems(cnc, cat_id, iter, 1, EmptyMap)
                ELSE EmptyMap,
            passive_items |-> EmptyMap,
            tokens |-> <<>>,
            current_pos |-> 0])

\* init_state once the language and the category are found
InitOk(g, lang, typ, iter) ==
    LET cnc == g.concretes[lang]
        cat_id == cnc.cnccats[typ.category].start
    IN  Ok([kind |-> "state", pgf |-> g, lang |-> lang, typ |-> typ,
            active_items |->
                IF cat_id \in DOMAIN cnc.productions
                THEN SeedItems(cnc, cat_id, iter, 1, EmptyMap)
                ELSE EmptyMap,
            passive_items |-> EmptyMap,
            tokens |-> <<>>,
            current_pos |-> 0])

\* init_state with the two error values exchanged
init_state_Swapped(g, lang, typ, iter) ==
    IF lang \notin DOMAIN g.concretes
    THEN Err("ParseError", <<"Category not found: ", typ.category>>)
    ELSE IF typ.category \notin DOMAIN g.concretes[lang].cnccats
    THEN Err("UnknownLanguage", lang)
    ELSE InitOk(g, lang, typ, iter)

init_state(g, lang, typ, iter) ==
    IF lang \notin DOMAIN g.concretes
    THEN Err("UnknownLanguage", lang)
    ELSE IF typ.category \notin DOMAIN g.concretes[lang].cnccats
    THEN Err("ParseError", <<"Category not found: ", typ.category>>)
    ELSE InitOk(g, lang, typ, iter)

\* the orders in which init_state can meet the productions of the goal fid
SeedIters(g, lang, typ) ==
    IF lang \in DOMAIN g.concretes /\ typ.category \in DOMAIN g.concretes[lang].cnccats
    THEN LET cnc == g.concretes[lang]
             cat_id == cnc.cnccats[typ.category].start
         IN  IF cat_id \in DOMAIN cnc.productions
             THEN Perms(cnc.productions[cat_id])
             ELSE {<<>>}
    ELSE {<<>>}

\* build_tree nested to the right
RECURSIVE build_tree_RightNested(_, _)
build_tree_RightNested(cnc_fun, args) ==
    IF Len(args) = 0 THEN Fun(cnc_fun.name)
    ELSE IF Len(args) = 1 THEN App(Fun(cnc_fun.name), args[1][2])
    ELSE build_tree_RightNested(cnc_fun,
             <<(<<args[1][1], App(args[1][2], args[2][2])>>)>> \o SubSeq(args, 3, Len(args)))

RECURSIVE build_tree(_, _)
build_tree(cnc_fun, args) ==
    IF Len(args) = 0 THEN Fun(cnc_fun.name)
    ELSE App(build_tree(cnc_fun, SubSeq(args, 1, Len(args) - 1)), args[Len(args)][2])

\* the SymCat arm moving the dot two symbols on
RECURSIVE FillSlot_TwoOn(_, _, _, _, _, _)
FillSlot_TwoOn(item, cat_id, next_fid, passive, i, na) ==
    IF i > Len(passive) THEN na
    ELSE FillSlot_TwoOn(item, cat_id, next_fid, passive, i + 1,
             IF passive[i].tree.some
             THEN MapPush(na, cat_id,
                          [item EXCEPT !.dot = @ + 2,
                                       !.args = Append(@, <<next_fid, passive[i].tree.val>>)])
             ELSE na)

\* the SymCat arm: one successor per passive item with a tree
RECURSIVE FillSlot(_, _, _, _, _, _)
FillSlot(item, cat_id, next_fid, passive, i, na) ==
    IF i > Len(passive) THEN na
    ELSE FillSlot(item, cat_id, next_fid, passive, i + 1,
             IF passive[i].tree.some
             THEN MapPush(na, cat_id,
                          [item EXCEPT !.dot = @ + 1,
                                       !.args = Append(@, <<next_fid, passive[i].tree.val>>)])
             ELSE na)

\* ProcessItem that completes an item in the call that scans its last symbol
ProcessItem_Eager(cnc, token, cat_id, item, acc) ==
    LET sq == VecGet(cnc.sequences, item.seqid)
    IN  IF acc.panic \/ ~sq.some THEN acc
        ELSE IF item.dot < Len(sq.val)
        THEN LET sym == sq.val[item.dot + 1]
             IN  IF sym.tag = "SymKS"
                 THEN IF sym.tok = token
                      THEN IF item.dot + 1 = Len(sq.val) /\ VecGet(cnc.cncfuns, item.fid).some
                           THEN [acc EXCEPT !.np =
                                    MapPush(@, cat_id,
                                        [item EXCEPT !.dot = @ + 1,
                                                     !.tree = Some(build_tree(
                                                         VecGet(cnc.cncfuns, item.fid).val,
                                                         item.args))])]
                           ELSE [acc EXCEPT !.na = MapPush(@, cat_id, [item EXCEPT !.dot = @ + 1])]
                      ELSE acc
                 ELSE IF sym.tag = "SymCat"
                 THEN IF sym.r \in DOMAIN acc.np
                      THEN [acc EXCEPT !.na = FillSlot(item, cat_id, sym.r, acc.np[sym.r], 1, @)]
                      ELSE acc
                 ELSE acc
        ELSE IF VecGet(cnc.cncfuns, item.fid).some
             THEN [acc EXCEPT !.np =
                      MapPush(@, cat_id,
                              [item EXCEPT !.tree =
                                  Some(build_tree(VecGet(cnc.cncfuns, item.fid).val, item.args))])]
             ELSE [acc EXCEPT !.panic = TRUE]

\* ProcessItem that carries an item over when its SymKS is not the token
ProcessItem_Carry(cnc, token, cat_id, item, acc) ==
    LET sq == VecGet(cnc.sequences, item.seqid)
    IN  IF acc.panic \/ ~sq.some THEN acc
        ELSE IF item.dot < Len(sq.val)
        THEN LET sym == sq.val[item.dot + 1]
             IN  IF sym.tag = "SymKS"
                 THEN IF sym.tok = token
                      THEN [acc EXCEPT !.na = MapPush(@, cat_id, [item EXCEPT !.dot = @ + 1])]
                      ELSE [acc EXCEPT !.na = MapPush(@, cat_id, item)]
                 ELSE IF sym.tag = "SymCat"
                 THEN IF sym.r \in DOMAIN acc.np
                      THEN [acc EXCEPT !.na = FillSlot(item, cat_id, sym.r, acc.np[sym.r], 1, @)]
                      ELSE acc
                 ELSE acc
        ELSE IF VecGet(cnc.cncfuns, item.fid).some
             THEN [acc EXCEPT !.np =
                      MapPush(@, cat_id,
                              [item EXCEPT !.tree =
                                  Some(build_tree(VecGet(cnc.cncfuns, item.fid).val, item.args))])]
             ELSE [acc EXCEPT !.panic = TRUE]

\* the body of next_state's loop for one active item; acc holds new_active,
\* new_passive and whether indexing cncfuns has panicked
ProcessItem(cnc, token, cat_id, item, acc) ==
    LET sq == VecGet(cnc.sequences, item.seqid)
    IN  IF acc.panic \/ ~sq.some THEN acc
        ELSE IF item.dot < Len(sq.val)
        THEN LET sym == sq.val[item.dot + 1]
             IN  IF sym.tag = "SymKS"
                 THEN IF sym.tok = token
                      THEN [acc EXCEPT !.na = MapPush(@, cat_id, [item EXCEPT !.dot = @ + 1])]
                      ELSE acc
                 ELSE IF sym.tag = "SymCat"
                 THEN IF sym.r \in DOMAIN acc.np
                      THEN [acc EXCEPT !.na = FillSlot(item, cat_id, sym.r, acc.np[sym.r], 1, @)]
                      ELSE acc
                 ELSE acc
        ELSE IF VecGet(cnc.cncfuns, item.fid).some
             THEN [acc EXCEPT !.np =
                      MapPush(@, cat_id,
                              [item EXCEPT !.tree =
                                  Some(build_tree(VecGet(cnc.cncfuns, item.fid).val, item.args))])]
             ELSE [acc EXCEPT !.panic = TRUE]

RECURSIVE ProcessItems(_, _, _, _, _, _)
ProcessItems(cnc, token, cat_id, items, i, acc) ==
    IF i > Len(items) THEN acc
    ELSE ProcessItems(cnc, token, cat_id, items, i + 1,
                      ProcessItem(cnc, token, cat_id, items[i], acc))

\* for (cat_id, items) in state.active_items.iter(), the keys met in the order korder
RECURSIVE ProcessActive(_, _, _, _, _, _)
ProcessActive(cnc, token, active, korder, k, acc) ==
    IF k > Len(korder) THEN acc
    ELSE ProcessActive(cnc, token, active, korder, k + 1,
                       ProcessItems(cnc, token, korder[k], active[korder[k]], 1, acc))

\* CoerceItems that leaves the child tree out of the new item
RECURSIVE CoerceItems_NoArgs(_, _, _, _, _)
CoerceItems_NoArgs(cat_id, arg, passive, i, na) ==
    IF i > Len(passive) THEN na
    ELSE CoerceItems_NoArgs(cat_id, arg, passive, i + 1,
             IF passive[i].tree.some
             THEN MapPush(na, cat_id, Item(cat_id, 0, 0, <<>>, None))
             ELSE na)

\* one Coerce production of cat_id: an active item per passive item of arg with a tree
RECURSIVE CoerceItems(_, _, _, _, _)
CoerceItems(cat_id, arg, passive, i, na) ==
    IF i > Len(passive) THEN na
    ELSE CoerceItems(cat_id, arg, passive, i + 1,
             IF passive[i].tree.some
             THEN MapPush(na, cat_id,
                          Item(cat_id, 0, 0, <<(<<arg, passive[i].tree.val>>)>>, None))
             ELSE na)

\* the Coerce loop storing its items under the fid of the argument
RECURSIVE CoerceLoop_UnderArg(_, _, _, _)
CoerceLoop_UnderArg(citer, i, np, na) ==
    IF i > Len(citer) THEN na
    ELSE CoerceLoop_UnderArg(citer, i + 1, np,
             IF citer[i][2].tag = "Coerce" /\ citer[i][2].arg \in DOMAIN np
             THEN CoerceItems(citer[i][2].arg + 2, citer[i][2].arg, np[citer[i][2].arg], 1, na)
             ELSE na)

\* the Coerce loop; citer lists the (cat_id, production) pairs of cnc.productions in
\* the order the nested iteration meets them
RECURSIVE CoerceLoop(_, _, _, _)
CoerceLoop(citer, i, np, na) ==
    IF i > Len(citer) THEN na
    ELSE CoerceLoop(citer, i + 1, np,
             IF citer[i][2].tag = "Coerce" /\ citer[i][2].arg \in DOMAIN np
             THEN CoerceItems(citer[i][1], citer[i][2].arg, np[citer[i][2].arg], 1, na)
             ELSE na)

\* next_state that starts its new passive table empty instead of from a clone
next_state_FreshPassive(state, token, korder, citer) ==
    LET pushed == [state EXCEPT !.tokens = Append(@, token)]
    IN  IF state.lang \notin DOMAIN state.pgf.concretes
        THEN [state |-> pushed, result |-> Err("ParseError", "Language not found")]
        ELSE LET cnc == state.pgf.concretes[state.lang]
                 acc == ProcessActive(cnc, token, state.active_items, korder, 1,
                                      [na |-> EmptyMap, np |-> EmptyMap,
                                       panic |-> FALSE])
             IN  IF acc.panic
                 THEN [state |-> pushed, result |-> [ok |-> FALSE, panic |-> TRUE]]
                 ELSE [state |-> [pushed EXCEPT
                                     !.active_items = CoerceLoop(citer, 1, acc.np, acc.na),
                                     !.passive_items = acc.np,
                                     !.current_pos = @ + 1],
                       result |-> Ok("unit")]

\* next_state that returns an error when the active table it is given is empty
next_state_RejectDead(state, token, korder, citer) ==
    LET pushed == [state EXCEPT !.tokens = Append(@, token)]
    IN  IF state.lang \notin DOMAIN state.pgf.concretes
        THEN [state |-> pushed, result |-> Err("ParseError", "Language not found")]
        ELSE LET cnc == state.pgf.concretes[state.lang]
                 acc == ProcessActive(cnc, token, state.active_items, korder, 1,
                                      [na |-> EmptyMap, np |-> state.passive_items,
                                       panic |-> FALSE])
             IN  IF acc.panic
                 THEN [state |-> pushed, result |-> [ok |-> FALSE, panic |-> TRUE]]
                 ELSE [state |-> [pushed EXCEPT
                                     !.active_items = CoerceLoop(citer, 1, acc.np, acc.na),
                                     !.passive_items = acc.np,
                                     !.current_pos = @ + 1],
                       result |-> IF state.active_items = EmptyMap
                                  THEN Err("ParseError", "Parsing failed")
                                  ELSE Ok("unit")]

\* next_state that leaves current_pos as it was
next_state_SamePos(state, token, korder, citer) ==
    LET pushed == [state EXCEPT !.tokens = Append(@, token)]
    IN  IF state.lang \notin DOMAIN state.pgf.concretes
        THEN [state |-> pushed, result |-> Err("ParseError", "Language not found")]
        ELSE LET cnc == state.pgf.concretes[state.lang]
                 acc == ProcessActive(cnc, token, state.active_items, korder, 1,
                                      [na |-> EmptyMap, np |-> state.passive_items,
                                       panic |-> FALSE])
             IN  IF acc.panic
                 THEN [state |-> pushed, result |-> [ok |-> FALSE, panic |-> TRUE]]
                 ELSE [state |-> [pushed EXCEPT
                                     !.active_items = CoerceLoop(citer, 1, acc.np, acc.na),
                                     !.passive_items = acc.np,
                                     !.current_pos = @],
                       result |-> Ok("unit")]

\* next_state: the state after the call and what the call returned
next_state(state, token, korder, citer) ==
    LET pushed == [state EXCEPT !.tokens = Append(@, token)]
    IN  IF state.lang \notin DOMAIN state.pgf.concretes
        THEN [state |-> pushed, result |-> Err("ParseError", "Language not found")]
        ELSE LET cnc == state.pgf.concretes[state.lang]
                 acc == ProcessActive(cnc, token, state.active_items, korder, 1,
                                      [na |-> EmptyMap, np |-> state.passive_items,
                                       panic |-> FALSE])
             IN  IF acc.panic
                 THEN [state |-> pushed, result |-> [ok |-> FALSE, panic |-> TRUE]]
                 ELSE [state |-> [pushed EXCEPT
                                     !.active_items = CoerceLoop(citer, 1, acc.np, acc.na),
                                     !.passive_items = acc.np,
                                     !.current_pos = @ + 1],
                       result |-> Ok("unit")]

\* the (cat_id, production) pairs in the order of a nested iteration: the keys in the
\* order porder, the productions of key k in the order piter[k]
RECURSIVE Nested(_, _, _)
Nested(porder, piter, k) ==
    IF k > Len(porder) THEN <<>>
    ELSE [i \in 1..Len(piter[porder[k]]) |-> <<porder[k], piter[porder[k]][i]>>]
         \o Nested(porder, piter, k + 1)

CoerceIters(cnc) ==
    {Nested(porder, piter, 1) :
        porder \in Perms(DOMAIN cnc.productions),
        piter \in {f \in [DOMAIN cnc.productions -> UNION {Perms(cnc.productions[k]) : k \in DOMAIN cnc.productions}] :
                      \A k \in DOMAIN cnc.productions : f[k] \in Perms(cnc.productions[k])}}

Leaf(s) == [tag |-> "Leaf", s |-> s]

Branch(c, children) == [tag |-> "Branch", cid |-> c, children |-> children]

RECURSIVE expr_to_bracketed(_)
expr_to_bracketed(e) ==
    IF e.tag = "Fun" THEN Leaf(e.cid)
    ELSE IF e.tag = "App"
    THEN Branch("*", <<expr_to_bracketed(e.fn), expr_to_bracketed(e.arg)>>)
    ELSE Leaf("")

\* the loop of get_parse_output over the passive items of cat_id
RECURSIVE CollectTrees(_, _, _)
CollectTrees(cnc, items, i) ==
    IF i > Len(items) THEN <<>>
    ELSE (IF items[i].tree.some
             /\ items[i].dot = (LET sq == VecGet(cnc.sequences, items[i].seqid)
                                IN  IF sq.some THEN Len(sq.val) ELSE 0)
          THEN <<items[i].tree.val>>
          ELSE <<>>)
         \o CollectTrees(cnc, items, i + 1)

\* GoalFid reading the end of the category's range
GoalFid_End(cnc, typ) ==
    IF typ.category \in DOMAIN cnc.cnccats THEN cnc.cnccats[typ.category].end ELSE 0

\* cnc.cnccats.get(&typ.category).map(|cat| cat.start).unwrap_or(0)
GoalFid(cnc, typ) ==
    IF typ.category \in DOMAIN cnc.cnccats THEN cnc.cnccats[typ.category].start ELSE 0

\* get_parse_output without the test for no trees
get_parse_output_NoEmptyTest(state, typ) ==
    LET cnc == state.pgf.concretes[state.lang]
        cat_id == GoalFid(cnc, typ)
        trees == IF cat_id \in DOMAIN state.passive_items
                 THEN CollectTrees(cnc, state.passive_items[cat_id], 1)
                 ELSE <<>>
    IN  [out |-> [kind |-> "ParseOk", trees |-> trees],
         bracketed |-> Branch(typ.category,
                              [i \in 1..Len(trees) |-> expr_to_bracketed(trees[i])])]

get_parse_output(state, typ) ==
    LET cnc == state.pgf.concretes[state.lang]
        cat_id == GoalFid(cnc, typ)
        trees == IF cat_id \in DOMAIN state.passive_items
                 THEN CollectTrees(cnc, state.passive_items[cat_id], 1)
                 ELSE <<>>
    IN  IF trees = <<>>
        THEN [out |-> [kind |-> "ParseFail"], bracketed |-> Leaf("")]
        ELSE [out |-> [kind |-> "ParseOk", trees |-> trees],
              bracketed |-> Branch(typ.category,
                                   [i \in 1..Len(trees) |-> expr_to_bracketed(trees[i])])]

----------------------------------------------------------------------------
(* linearize *)

\* cnc.cncfuns.iter().find(|f| f.name == *cid)
RECURSIVE FindFun(_, _, _)
FindFun(cncfuns, cid, i) ==
    IF i > Len(cncfuns) THEN None
    ELSE IF cncfuns[i].name = cid THEN Some(cncfuns[i])
    ELSE FindFun(cncfuns, cid, i + 1)

\* seq.iter().filter_map(SymKS(s) => Some(s), _ => None)
RECURSIVE KSTokens(_, _)
KSTokens(sq, j) ==
    IF j > Len(sq) THEN <<>>
    ELSE (IF sq[j].tag = "SymKS" THEN <<sq[j].tok>> ELSE <<>>) \o KSTokens(sq, j + 1)

\* fun.lins.iter().filter_map(|&i| cnc.sequences.get(i as usize)).flat_map(...)
RECURSIVE LinTokens(_, _, _)
LinTokens(cnc, lins, i) ==
    IF i > Len(lins) THEN <<>>
    ELSE (LET sq == VecGet(cnc.sequences, lins[i])
          IN  IF sq.some THEN KSTokens(sq.val, 1) ELSE <<>>)
         \o LinTokens(cnc, lins, i + 1)

\* the Fun arm
LinFun(cnc, cid) ==
    LET fun == FindFun(cnc.cncfuns, cid, 1)
    IN  IF fun.some
        THEN Ok(Join(LinTokens(cnc, fun.val.lins, 1)))
        ELSE Err("ParseError", "Function not found in concrete syntax")

\* LinApp looking at e2's result before e1's
LinApp_ArgFirst(r1, r2) ==
    IF ~r2.ok THEN r2
    ELSE IF ~r1.ok THEN r1
    ELSE Ok(r1.val \o <<SP>> \o r2.val)

\* the App arm, given what linearize returned for e1 and for e2:
\* let s1 = linearize(e1)?; let s2 = linearize(e2)?; Ok(format!("{} {}", s1, s2))
LinApp(r1, r2) ==
    IF ~r1.ok THEN r1
    ELSE IF ~r2.ok THEN r2
    ELSE Ok(r1.val \o <<SP>> \o r2.val)

RECURSIVE linearize(_, _, _)
linearize(g, lang, expr) ==
    IF lang \notin DOMAIN g.concretes
    THEN Err("UnknownLanguage", lang)
    ELSE IF expr.tag = "Fun" THEN LinFun(g.concretes[lang], expr.cid)
    ELSE IF expr.tag = "App"
    THEN LinApp(linearize(g, lang, expr.fn), linearize(g, lang, expr.arg))
    ELSE Err("ParseError", "Unsupported expression for linearization")

----------------------------------------------------------------------------
(* The parser as a state machine: a caller holds a grammar, makes one parse *)
(* state from it, feeds it tokens and reads its output.                     *)

NoState == [kind |-> "none"]

NoCall == [call |-> "none"]

NoOutput == [kind |-> "none"]

Init ==
    /\ pgf \in Grammars
    /\ st = NoState
    /\ res = NoCall
    /\ output = NoOutput

InitState(l, c) ==
    /\ res = NoCall
    /\ \E iter \in SeedIters(pgf, l, mk_type(<<>>, c, <<>>)) :
         LET r == init_state(pgf, l, mk_type(<<>>, c, <<>>), iter)
         IN  /\ res' = [call |-> "init_state", lang |-> l, category |-> c, result |-> r]
             /\ st' = IF r.ok THEN r.val ELSE NoState
    /\ UNCHANGED <<pgf, output>>

\* a call that panics unwinds out of the caller: nothing is called after it
Aborted == res.call = "next_state" /\ ~res.result.ok

NextState(token) ==
    /\ st.kind = "state"
    /\ ~Aborted
    /\ Len(st.tokens) < MaxTokens
    /\ \E korder \in Perms(DOMAIN st.active_items) :
       \E citer \in CoerceIters(st.pgf.concretes[st.lang]) :
         LET r == next_state(st, token, korder, citer)
         IN  /\ st' = r.state
             /\ res' = [call |-> "next_state", token |-> token, result |-> r.result]
    /\ output' = NoOutput
    /\ UNCHANGED pgf

GetParseOutput(c) ==
    /\ st.kind = "state"
    /\ ~Aborted
    /\ output' = [kind |-> "output", typ |-> mk_type(<<>>, c, <<>>)]
                 @@ get_parse_output(st, mk_type(<<>>, c, <<>>))
    /\ UNCHANGED <<pgf, st, res>>

Next ==
    \/ \E l \in Languages, c \in CatNames : InitState(l, c)
    \/ \E token \in Tokens : NextState(token)
    \/ \E c \in CatNames : GetParseOutput(c)

Spec == Init /\ [][Next]_vars

----------------------------------------------------------------------------
(* The linearizer, a pure function, applied once to a grammar, a language   *)
(* and an expression.                                                       *)

\* the expressions with exactly n applications over the leaves
RECURSIVE WithApps(_, _)
WithApps(leaves, n) ==
    IF n = 0 THEN leaves
    ELSE UNION {{App(x, y) : x \in WithApps(leaves, i), y \in WithApps(leaves, n - 1 - i)} :
                   i \in 0..(n - 1)}

\* the most applications in an expression given to linearize
MaxApps == 2

\* every expression form that is neither Fun nor App
Unsupported ==
    {Meta, StrLit(T_is), IntLit(1), FloatLit(1), DoubleLit(1), ImplArg(Fun("Pred")),
     Abs([tag |-> "Explicit", name |-> "x"], "x", Fun("Pred")),
     Typed(Fun("Pred"), mk_type(<<>>, "Comment", <<>>))}

LinLeaves == {Fun("Pred"), Fun("This"), Fun("Nope"), Meta, ImplArg(Fun("Pred"))}

LinExprs == Unsupported \cup UNION {WithApps(LinLeaves, n) : n \in 0..MaxApps}

Linearize(l, e) ==
    /\ res = NoCall
    /\ res' = [call |-> "linearize", lang |-> l, expr |-> e, result |-> linearize(pgf, l, e)]
    /\ UNCHANGED <<pgf, st, output>>

NextLin == \E l \in Languages, e \in LinExprs : Linearize(l, e)

SpecLin == Init /\ [][NextLin]_vars

----------------------------------------------------------------------------
(* Claims about the parser and the linearizer *)

\* a concrete function whose first linearization sequence is non-empty and all SymKS
GroundFun(cnc, f) ==
    LET l == VecGet(f.lins, 0)
        sq == IF l.some THEN VecGet(cnc.sequences, l.val) ELSE None
    IN  /\ sq.some
        /\ Len(sq.val) > 0
        /\ \A j \in 1..Len(sq.val) : sq.val[j].tag = "SymKS"

\* C1: round trip on ground functions.  parse(g, l, start_cat(g), s) is init_state,
\* one next_state per token of split_whitespace(s), then get_parse_output; so for a
\* parse state of the start category that has been fed exactly the tokens of
\* linearize(g, l, Fun(f)), f a ground function, the output is ParseOk and its trees
\* contain Fun(f).
C1_RoundTrip ==
    (st.kind = "state" /\ ~Aborted /\ st.typ = start_cat(pgf)) =>
        \A f \in Range(pgf.concretes[st.lang].cncfuns) :
            LET lin == linearize(pgf, st.lang, Fun(f.name))
            IN  (GroundFun(pgf.concretes[st.lang], f) /\ lin.ok
                 /\ st.tokens = split_whitespace(lin.val))
                => LET o == get_parse_output(st, st.typ).out
                   IN  o.kind = "ParseOk" /\ Fun(f.name) \in Range(o.trees)

\* C2: init_state fails exactly in two cases, producing no parse state: an unknown
\* language gives UnknownLanguage with the language's name, whatever the category;
\* a known language with a category that is not in its cnccats gives ParseError
\* "Category not found: <category>".
C2_InitStateErrors ==
    res.call = "init_state" =>
        IF res.lang \notin DOMAIN pgf.concretes
        THEN res.result = Err("UnknownLanguage", res.lang) /\ st = NoState
        ELSE IF res.category \notin DOMAIN pgf.concretes[res.lang].cnccats
        THEN /\ res.result = Err("ParseError", <<"Category not found: ", res.category>>)
             /\ st = NoState
        ELSE res.result.ok /\ st.kind = "state"

C2_Witness ==
    /\ res.call = "init_state"
    /\ res.lang \in DOMAIN pgf.concretes
    /\ res.category = "NonExistentCat"
    /\ ~res.result.ok
    /\ st = NoState

\* the items of the passive table under fid that have a tree and whose dot is the
\* length of their sequence
Finished(state, fid) ==
    LET cnc == state.pgf.concretes[state.lang]
    IN  SelectSeq(IF fid \in DOMAIN state.passive_items THEN state.passive_items[fid] ELSE <<>>,
                  LAMBDA it : /\ it.tree.some
                              /\ it.seqid \in 0..(Len(cnc.sequences) - 1)
                              /\ it.dot = Len(cnc.sequences[it.seqid + 1]))

\* C3: get_parse_output for a type whose category has the goal fid
\* cnccats[category].start returns ParseOk(trees) exactly when the passive table holds
\* under that fid an item with a tree and dot = |sequences[seqid]|, the trees being
\* those of these items, in order; otherwise it returns ParseFail and Leaf("").
C3_ParseOutput ==
    (output.kind = "output"
     /\ output.typ.category \in DOMAIN st.pgf.concretes[st.lang].cnccats) =>
        LET done == Finished(st, st.pgf.concretes[st.lang].cnccats[output.typ.category].start)
        IN  IF done # <<>>
            THEN /\ output.out.kind = "ParseOk"
                 /\ output.out.trees = [i \in 1..Len(done) |-> done[i].tree.val]
            ELSE /\ output.out.kind = "ParseFail"
                 /\ output.bracketed = Leaf("")

C3_Witness ==
    /\ output.kind = "output"
    /\ output.typ = st.typ
    /\ output.out.kind = "ParseOk"
    /\ \E i \in 1..Len(output.out.trees) : output.out.trees[i].tag = "App"

\* C4: no two trees of ParseOk(trees) are structurally equal.
C4_TreesDistinct ==
    (output.kind = "output" /\ output.out.kind = "ParseOk") =>
        \A i, j \in 1..Len(output.out.trees) :
            output.out.trees[i] = output.out.trees[j] => i = j

\* C5: linearize(g, l, Fun(f)) is the SymKS tokens of the sequence lins[0] of the first
\* CncFun named f, in order, joined; the sequences of lins[1..] add nothing.
C5_FirstFieldOnly ==
    (res.call = "linearize" /\ res.expr.tag = "Fun" /\ res.lang \in DOMAIN pgf.concretes) =>
        LET cnc == pgf.concretes[res.lang]
            named == SelectSeq(cnc.cncfuns, LAMBDA f : f.name = res.expr.cid)
        IN  named # <<>> =>
                LET l == VecGet(named[1].lins, 0)
                    sq == IF l.some THEN VecGet(cnc.sequences, l.val) ELSE None
                IN  res.result = Ok(Join(IF sq.some THEN KSTokens(sq.val, 1) ELSE <<>>))

RECURSIVE OnlyFunApp(_)
OnlyFunApp(e) ==
    \/ e.tag = "Fun"
    \/ e.tag = "App" /\ OnlyFunApp(e.fn) /\ OnlyFunApp(e.arg)

\* the tokens the functions of e emit, left to right
RECURSIVE Emitted(_, _)
Emitted(cnc, e) ==
    IF e.tag = "App" THEN Emitted(cnc, e.fn) \o Emitted(cnc, e.arg)
    ELSE LET fun == FindFun(cnc.cncfuns, e.cid, 1)
         IN  IF fun.some THEN LinTokens(cnc, fun.val.lins, 1) ELSE <<>>

WellSpaced(s) ==
    /\ s # <<>> => s[1] # SP /\ s[Len(s)] # SP
    /\ \A i \in 1..(Len(s) - 1) : ~(s[i] = SP /\ s[i + 1] = SP)

\* C6: for an expression of Fun and App only whose linearization succeeds, the output
\* is the emitted tokens joined by a single space: no leading space, no trailing
\* space, no two spaces in a row, also when a sub-expression emits no token.
C6_SingleSpaces ==
    (res.call = "linearize" /\ res.result.ok /\ OnlyFunApp(res.expr)) =>
        /\ res.result.val = Join(Emitted(pgf.concretes[res.lang], res.expr))
        /\ WellSpaced(res.result.val)

\* C7: linearize fails with UnknownLanguage for a language that is not a concrete of
\* the grammar; with the unsupported-expression error for an expression that is
\* neither Fun nor App; and for App(h, a) with the error of linearize(h) if it fails,
\* else with the error of linearize(a) if that fails, unchanged.
C7_LinearizeErrors ==
    res.call = "linearize" =>
        IF res.lang \notin DOMAIN pgf.concretes
        THEN res.result = Err("UnknownLanguage", res.lang)
        ELSE IF res.expr.tag \notin {"Fun", "App"}
        THEN res.result = Err("ParseError", "Unsupported expression for linearization")
        ELSE res.expr.tag = "App" =>
                LET rh == linearize(pgf, res.lang, res.expr.fn)
                    ra == linearize(pgf, res.lang, res.expr.arg)
                IN  /\ ~rh.ok => res.result = rh
                    /\ (rh.ok /\ ~ra.ok) => res.result = ra
                    /\ (rh.ok /\ ra.ok) => res.result.ok

C7_Witness ==
    /\ res.call = "linearize"
    /\ res.lang \in DOMAIN pgf.concretes
    /\ res.expr.tag = "App"
    /\ ~linearize(pgf, res.lang, res.expr.fn).ok
    /\ ~linearize(pgf, res.lang, res.expr.arg).ok
    /\ linearize(pgf, res.lang, res.expr.fn) # linearize(pgf, res.lang, res.expr.arg)
    /\ res.result = linearize(pgf, res.lang, res.expr.fn)

----------------------------------------------------------------------------
(* The binary decoder.  A cursor is std::io::Cursor<&[u8]>: the bytes and   *)
(* the read position.  Bytes are 0..127 and 255: a string of bytes below    *)
(* 128 is valid UTF-8 and one holding 255 never is.  CIds and tokens read   *)
(* from a file are the sequences of their bytes.                            *)
(*                                                                         *)
(* Cursor::read_exact leaves the position where it was when the bytes run  *)
(* out in older releases of std and moves it to the end of the buffer in   *)
(* newer ones; eof_on_err says which std the program was built with.       *)
(* dropped names the constructs in which the Err of a read was discarded   *)
(* (if let Ok, unwrap_or, break); oob says that a loop count went past     *)
(* MaxCount, where the model stops following the program.                  *)

\* the largest loop count the model follows
MaxCount == 3

Cursor(data, eof_on_err) ==
    [inner |-> data, pos |-> 0, eof_on_err |-> eof_on_err, dropped |-> {}, oob |-> FALSE]

\* let v = ..; In(v)
Let(v, In(_)) == In(v)

RetOk(cur, v) == [ok |-> TRUE, cur |-> cur, val |-> v]

\* Err(PgfError::DeserializeError(msg))
RetErr(cur, msg) ==
    [ok |-> FALSE, cur |-> cur, err |-> [kind |-> "DeserializeError", msg |-> msg]]

\* an Err that the caller discards while reading the construct what
Swallow(cur, what) == [cur EXCEPT !.dropped = @ \cup {what}]

read_exact(cur, n) ==
    IF cur.pos + n <= Len(cur.inner)
    THEN RetOk([cur EXCEPT !.pos = @ + n], SubSeq(cur.inner, cur.pos + 1, cur.pos + n))
    ELSE RetErr([cur EXCEPT !.pos = IF cur.eof_on_err THEN Len(cur.inner) ELSE @],
                "failed to fill whole buffer")

\* the value of the bytes b.val that were read, or b's Err
FromBytes(b, Value(_)) == IF b.ok THEN RetOk(b.cur, Value(b.val)) ELSE b

\* ReadBytesExt::read_u8, read_u16::<BigEndian>
read_u8(cur) == FromBytes(read_exact(cur, 1), LAMBDA b : b[1])

read_u16(cur) == FromBytes(read_exact(cur, 2), LAMBDA b : b[1] * 256 + b[2])

Low24(b) == b[2] * 65536 + b[3] * 256 + b[4]

\* read_u32::<BigEndian>; a value of 2^31 or more is only ever a loop count and is
\* given as the largest integer
read_u32(cur) ==
    FromBytes(read_exact(cur, 4),
            LAMBDA b : IF b[1] >= 128 THEN 2147483647 ELSE b[1] * 16777216 + Low24(b))

\* read_i32::<BigEndian>: two's complement
read_i32(cur) ==
    FromBytes(read_exact(cur, 4),
            LAMBDA b : (IF b[1] >= 128 THEN b[1] - 256 ELSE b[1]) * 16777216 + Low24(b))

\* read_f64::<BigEndian>: the value is kept as its eight bytes
read_f64(cur) == read_exact(cur, 8)

\* String::from_utf8 on the model's bytes
Utf8(bytes) == \A i \in 1..Len(bytes) : bytes[i] < 128

\* .map_err(|e| PgfError::DeserializeError(format!("<what>: {}", e)))
MapErr(r, what) == IF r.ok THEN r ELSE RetErr(r.cur, what)

\* the string of a length that was or was not read
StringBody(len) ==
    IF ~len.ok THEN len
    ELSE Let(MapErr(read_exact(len.cur, len.val), "Failed to read string"), LAMBDA buf :
             IF buf.ok /\ ~Utf8(buf.val) THEN RetErr(buf.cur, "Invalid UTF-8 string")
             ELSE buf)

read_string(cur) == StringBody(MapErr(read_u8(cur), "Failed to read string length"))

read_string_16(cur) == StringBody(MapErr(read_u16(cur), "Failed to read string length"))

\* HashMap::insert
MapInsert(m, k, v) == [j \in DOMAIN m \cup {k} |-> IF j = k THEN v ELSE m[j]]

\* for _ in 0..n { s = Body(s) }
RECURSIVE Repeat(_, _, _)
Repeat(Body(_), n, s) == IF n = 0 THEN s ELSE Repeat(Body, n - 1, Body(s))

\* a loop count that was read: past MaxCount the loop is not followed
Counted(c) ==
    IF c.val > MaxCount
    THEN [cur |-> [c.cur EXCEPT !.oob = TRUE], n |-> 0]
    ELSE [cur |-> c.cur, n |-> c.val]

\* cursor.read_u32::<BigEndian>().unwrap_or(0) as a loop count
CountOr0(cur, what) ==
    Let(read_u32(cur), LAMBDA c :
        IF c.ok THEN Counted(c) ELSE [cur |-> Swallow(c.cur, what), n |-> 0])

\* let mut acc = acc0; for _ in 0..c.n { Body }
Loop(Body(_), c, acc0) == Repeat(Body, c.n, [cur |-> c.cur, acc |-> acc0])

\* the loop state after a read that failed, its Err dropped
Drop(s, r, what) == [s EXCEPT !.cur = Swallow(r.cur, what)]

\* if let Ok(x) = r { acc.push(x) }
PushOk(s, r, what) ==
    IF r.ok THEN [s EXCEPT !.cur = r.cur, !.acc = Append(@, r.val)]
    ELSE Drop(s, r, what)

\* Ok(acc) of a loop that has ended
LoopOk(s) == RetOk(s.cur, s.acc)

\* the Ok of a literal's payload under its constructor
Literal(r, name) == IF r.ok THEN RetOk(r.cur, [tag |-> name, val |-> r.val]) ELSE r

read_literal(cur) ==
    Let(read_u8(cur), LAMBDA tag :
        IF ~tag.ok THEN RetErr(tag.cur, "Failed to read literal tag")
        ELSE IF tag.val = 0 THEN Literal(read_string(tag.cur), "Str")
        ELSE IF tag.val = 1
        THEN Literal(MapErr(read_i32(tag.cur), "Failed to read int"), "Int")
        ELSE IF tag.val = 2
        THEN Literal(MapErr(read_f64(tag.cur), "Failed to read float"), "Flt")
        ELSE RetErr(tag.cur, "Unknown literal tag"))

\* one round of read_flags' loop: both reads are made, then the pair is matched;
\* after the break, s.brk holds
FlagBody(s) ==
    IF s.brk THEN s
    ELSE Let(read_string(s.cur), LAMBDA key :
         Let(read_literal(key.cur), LAMBDA value :
             IF key.ok /\ value.ok
             THEN [s EXCEPT !.cur = value.cur, !.acc = MapInsert(@, key.val, value.val)]
             ELSE [s EXCEPT !.cur = Swallow(value.cur, "flag"), !.brk = TRUE]))

read_flags(cur) ==
    Let(read_u16(cur), LAMBDA c :
        IF ~c.ok THEN RetOk(Swallow(c.cur, "flags"), EmptyMap)
        ELSE Let(Counted(c), LAMBDA s0 :
             LoopOk(Repeat(FlagBody, s0.n,
                           [cur |-> s0.cur, acc |-> EmptyMap, brk |-> FALSE]))))

read_type(cur) ==
    Let(read_string(cur), LAMBDA category :
        IF category.ok THEN RetOk(category.cur, mk_type(<<>>, category.val, <<>>))
        ELSE category)

\* cats.entry(category).or_insert_with(..).funs.push((0, fun_name))
AddToCat(cats, category, fun_name) ==
    IF category \in DOMAIN cats
    THEN [cats EXCEPT ![category].funs = Append(@, <<0, fun_name>>)]
    ELSE MapInsert(cats, category, [hypos |-> <<>>, funs |-> <<(<<0, fun_name>>)>>])

\* one round of read_abstract's loop; acc holds funs and cats
FunBody(s) ==
    Let(read_string(s.cur), LAMBDA fun_name :
        IF ~fun_name.ok THEN Drop(s, fun_name, "function")
        ELSE Let(read_type(fun_name.cur), LAMBDA fun_type :
        IF ~fun_type.ok THEN Drop(s, fun_type, "function")
        ELSE Let(read_i32(fun_type.cur), LAMBDA weight :
        IF ~weight.ok THEN Drop(s, weight, "function")
        ELSE Let(read_f64(weight.cur), LAMBDA prob :
        IF ~prob.ok THEN Drop(s, prob, "function")
        ELSE [s EXCEPT !.cur = prob.cur,
                       !.acc = [funs |-> MapInsert(@.funs, fun_name.val,
                                            [ty |-> fun_type.val, weight |-> weight.val,
                                             equations |-> None, prob |-> prob.val]),
                                cats |-> AddToCat(@.cats, fun_type.val.category,
                                                  fun_name.val)]]))))

\* Abstract { funs, cats } with nothing in it
EmptyAbstract == [funs |-> EmptyMap, cats |-> EmptyMap]

read_abstract(cur) ==
    Let(read_u32(cur), LAMBDA c :
        IF ~c.ok THEN RetOk(Swallow(c.cur, "abstract"), EmptyAbstract)
        ELSE LoopOk(Loop(FunBody, Counted(c), EmptyAbstract)))

read_parg(cur) ==
    Let(Loop(LAMBDA s : PushOk(s, read_i32(s.cur), "production"),
             CountOr0(cur, "production"), <<>>), LAMBDA hypos :
    Let(read_i32(hypos.cur), LAMBDA fid :
        IF fid.ok THEN RetOk(fid.cur, PArg(hypos.acc, fid.val))
        ELSE RetErr(fid.cur, "Failed to read parg fid")))

read_production(cur) ==
    Let(read_u8(cur), LAMBDA tag :
        IF ~tag.ok THEN RetErr(tag.cur, "Failed to read production tag")
        ELSE IF tag.val = 0
        THEN Let(read_i32(tag.cur), LAMBDA fid :
                 IF ~fid.ok THEN RetErr(fid.cur, "Failed to read fid")
                 ELSE Let(Loop(LAMBDA s : PushOk(s, read_parg(s.cur), "production"),
                               CountOr0(fid.cur, "production"), <<>>), LAMBDA args :
                          RetOk(args.cur, Apply(fid.val, args.acc))))
        ELSE IF tag.val = 1
        THEN Let(read_i32(tag.cur), LAMBDA arg :
                 IF arg.ok THEN RetOk(arg.cur, Coerce(arg.val))
                 ELSE RetErr(arg.cur, "Failed to read coerce arg"))
        ELSE RetErr(tag.cur, "Unknown production tag"))

\* if let Ok(prod) = read_production(cursor) { prod_set.insert(prod) }
InsertProd(s) ==
    Let(read_production(s.cur), LAMBDA prod :
        IF prod.ok THEN [s EXCEPT !.cur = prod.cur, !.acc = @ \cup {prod.val}]
        ELSE Drop(s, prod, "production"))

\* one round of read_productions' outer loop
ProdSetBody(s) ==
    Let(read_i32(s.cur), LAMBDA cat_id :
        IF ~cat_id.ok THEN Drop(s, cat_id, "production")
        ELSE Let(Loop(InsertProd, CountOr0(cat_id.cur, "production"), {}),
                 LAMBDA prod_set :
                    [s EXCEPT !.cur = prod_set.cur,
                              !.acc = MapInsert(@, cat_id.val, prod_set.acc)]))

read_productions(cur) ==
    LoopOk(Loop(ProdSetBody, CountOr0(cur, "productions"), EmptyMap))

\* one round of read_cncfuns' loop
CncFunBody(s) ==
    Let(read_string(s.cur), LAMBDA name :
        IF ~name.ok THEN Drop(s, name, "cncfun")
        ELSE Let(Loop(LAMBDA l : PushOk(l, read_i32(l.cur), "cncfun"),
                      CountOr0(name.cur, "cncfun"), <<>>), LAMBDA lins :
                    [s EXCEPT !.cur = lins.cur,
                              !.acc = Append(@, CncFun(name.val, lins.acc))]))

read_cncfuns(cur) == LoopOk(Loop(CncFunBody, CountOr0(cur, "cncfuns"), <<>>))

SymVar(d, r) == [tag |-> "SymVar", d |-> d, r |-> r]

SymKP(symbols, alts) == [tag |-> "SymKP", symbols |-> symbols, alts |-> alts]

Alt(symbols, tokens) == [symbols |-> symbols, tokens |-> tokens]

\* cursor.read_i32::<BigEndian>().unwrap_or(0)
I32Or0(cur) ==
    Let(read_i32(cur), LAMBDA x : IF x.ok THEN x ELSE RetOk(Swallow(x.cur, "symbol"), 0))

RECURSIVE read_symbol(_), read_alt(_)

\* let symbol_count = ..unwrap_or(0); for _ in 0..symbol_count { if let Ok(sym) = .. }
ReadSymbols(cur, what) ==
    Loop(LAMBDA s : PushOk(s, read_symbol(s.cur), "symbol"), CountOr0(cur, what), <<>>)

read_symbol(cur) ==
    Let(read_u8(cur), LAMBDA tag :
        IF ~tag.ok THEN RetErr(tag.cur, "Failed to read symbol tag")
        ELSE IF tag.val \in {0, 1, 2}
        THEN Let(I32Or0(tag.cur), LAMBDA n :
             Let(I32Or0(n.cur), LAMBDA l :
                 RetOk(l.cur, IF tag.val = 0 THEN SymCat(n.val, l.val)
                              ELSE IF tag.val = 1 THEN SymLit(n.val, l.val)
                              ELSE SymVar(n.val, l.val))))
        ELSE IF tag.val = 3
        THEN Let(read_string(tag.cur), LAMBDA token :
                 IF token.ok THEN RetOk(token.cur, SymKS(token.val)) ELSE token)
        ELSE IF tag.val = 4
        THEN Let(ReadSymbols(tag.cur, "symbol"), LAMBDA symbols :
             Let(Loop(LAMBDA s : PushOk(s, read_alt(s.cur), "symbol"),
                      CountOr0(symbols.cur, "symbol"), <<>>), LAMBDA alts :
                 RetOk(alts.cur, SymKP(symbols.acc, alts.acc))))
        ELSE IF tag.val = 5 THEN RetOk(tag.cur, SymNE)
        ELSE RetErr(tag.cur, "Unknown symbol tag"))

read_alt(cur) ==
    Let(ReadSymbols(cur, "symbol"), LAMBDA symbols :
    Let(Loop(LAMBDA s : PushOk(s, read_string(s.cur), "symbol"),
             CountOr0(symbols.cur, "symbol"), <<>>), LAMBDA tokens :
        RetOk(tokens.cur, Alt(symbols.acc, tokens.acc))))

\* one round of read_sequences' loop: the sequence is pushed whatever was read
SeqBody(s) ==
    Let(ReadSymbols(s.cur, "sequence"), LAMBDA symbols :
        [s EXCEPT !.cur = symbols.cur, !.acc = Append(@, symbols.acc)])

read_sequences(cur) == LoopOk(Loop(SeqBody, CountOr0(cur, "sequences"), <<>>))

\* one round of read_cnccats' loop: both bounds are read, then the pair is matched
CncCatBody(s) ==
    Let(read_string(s.cur), LAMBDA cat_name :
        IF ~cat_name.ok THEN Drop(s, cat_name, "category")
        ELSE Let(read_i32(cat_name.cur), LAMBDA start :
             Let(read_i32(start.cur), LAMBDA end :
                 IF start.ok /\ end.ok
                 THEN [s EXCEPT !.cur = end.cur,
                                !.acc = MapInsert(@, cat_name.val,
                                                  CncCat(start.val, end.val))]
                 ELSE Drop(s, end, "category"))))

read_cnccats(cur) == LoopOk(Loop(CncCatBody, CountOr0(cur, "cnccats"), EmptyMap))

\* none of the five readers returns Err, so no ? of read_concrete leaves early;
\* total_cats is read_i32().unwrap_or(cnccats.len() as i32)
read_concrete(cur) ==
    Let(read_flags(cur), LAMBDA cflags :
    Let(read_productions(cflags.cur), LAMBDA productions :
    Let(read_cncfuns(productions.cur), LAMBDA cncfuns :
    Let(read_sequences(cncfuns.cur), LAMBDA sequences :
    Let(read_cnccats(sequences.cur), LAMBDA cnccats :
    Let(read_i32(cnccats.cur), LAMBDA total :
        RetOk(IF total.ok THEN total.cur ELSE Swallow(total.cur, "concrete"),
              [cflags |-> cflags.val, productions |-> productions.val,
               cncfuns |-> cncfuns.val, sequences |-> sequences.val,
               cnccats |-> cnccats.val,
               total_cats |-> IF total.ok THEN total.val
                              ELSE Cardinality(DOMAIN cnccats.val)])))))))

\* one round of read_concretes' loop; after a ? has returned, s.err holds the Err
ConcreteBody(s) ==
    IF s.err.some THEN s
    ELSE Let(read_string(s.cur), LAMBDA lang_name :
             IF ~lang_name.ok
             THEN [s EXCEPT !.cur = lang_name.cur, !.err = Some(lang_name.err)]
             ELSE Let(read_concrete(lang_name.cur), LAMBDA concrete :
                      [s EXCEPT !.cur = concrete.cur,
                                !.acc = MapInsert(@, lang_name.val, concrete.val)]))

read_concretes(cur) ==
    Let(read_u32(cur), LAMBDA c :
        IF ~c.ok THEN RetErr(c.cur, "Failed to read concrete count")
        ELSE Let(Counted(c), LAMBDA s0 :
             Let(Repeat(ConcreteBody, s0.n,
                        [cur |-> s0.cur, acc |-> EmptyMap, err |-> None]), LAMBDA s :
                 IF s.err.some THEN [ok |-> FALSE, cur |-> s.cur, err |-> s.err.val]
                 ELSE LoopOk(s))))

\* the version and the grammar count that parse_pgf_binary accepts
PgfVersion == 2

NumGrammars == 1

\* the grammar count that was or was not read, any count accepted
CountOf_AnyCount(num_grammars) ==
    IF ~num_grammars.ok THEN RetErr(num_grammars.cur, "Failed to read grammar count")
    ELSE num_grammars

\* the grammar count that was or was not read: it must be 1
CountOf(num_grammars) ==
    IF ~num_grammars.ok THEN RetErr(num_grammars.cur, "Failed to read grammar count")
    ELSE IF num_grammars.val # NumGrammars
    THEN RetErr(num_grammars.cur, "Expected 1 grammar")
    ELSE num_grammars

\* parse_pgf_binary's header: the version, which must be 2, then the grammar count
ReadHeader(cur) ==
    Let(read_u16(cur), LAMBDA version :
        IF ~version.ok THEN RetErr(version.cur, "Failed to read version")
        ELSE IF version.val # PgfVersion
        THEN RetErr(version.cur, "Unsupported PGF version")
        ELSE CountOf(read_u16(version.cur)))

\* cid::mk_cid("startcat") and cid::mk_cid("S") as bytes
CidStartcat == <<115, 116, 97, 114, 116, 99, 97, 116>>

CidS == <<83>>

\* parse_pgf_binary up to the abstract syntax: header, absname, flags, abstract
ReadAbstractPart(cur) ==
    Let(ReadHeader(cur), LAMBDA header :
        IF ~header.ok THEN header
        ELSE Let(read_string_16(header.cur), LAMBDA absname :
        IF ~absname.ok THEN absname
        ELSE Let(read_flags(absname.cur), LAMBDA flags :
             Let(read_abstract(flags.cur), LAMBDA abstract :
                 RetOk(abstract.cur, [absname |-> absname.val, flags |-> flags.val,
                                      abstract |-> abstract.val])))))

\* what r#abstract.cats.keys().next() can be: any key, the order of a HashMap's
\* keys being unspecified
FirstKeys(cur) ==
    Let(ReadAbstractPart(cur), LAMBDA a :
        IF ~a.ok \/ DOMAIN a.val.abstract.cats = {} THEN {None}
        ELSE {Some(k) : k \in DOMAIN a.val.abstract.cats})

\* flags.get("startcat") when it is a Literal::Str, else the first key of cats,
\* else "S"
StartCat(flags, first) ==
    IF CidStartcat \in DOMAIN flags /\ flags[CidStartcat].tag = "Str"
    THEN flags[CidStartcat].val
    ELSE IF first.some THEN first.val ELSE CidS

\* first is the value of r#abstract.cats.keys().next()
parse_pgf_binary(cur, first) ==
    Let(ReadAbstractPart(cur), LAMBDA a :
        IF ~a.ok THEN a
        ELSE Let(read_concretes(a.cur), LAMBDA concretes :
                 IF ~concretes.ok THEN concretes
                 ELSE RetOk(concretes.cur,
                            [absname |-> a.val.absname, concretes |-> concretes.val,
                             abstract |-> a.val.abstract,
                             startcat |-> StartCat(a.val.flags, first),
                             flags |-> a.val.flags])))

parse_pgf(data, eof_on_err, first) == parse_pgf_binary(Cursor(data, eof_on_err), first)

----------------------------------------------------------------------------
(* The buffers handed to parse_pgf: a few files written field by field,    *)
(* every proper prefix of each, each with one byte replaced, and each with *)
(* bytes appended after the last field.                                    *)

\* the writers of the fields the readers read
U16(n) == <<n \div 256, n % 256>>

U32(n) == <<0, 0>> \o U16(n)

Str8(bytes) == <<Len(bytes)>> \o bytes

Str16(bytes) == U16(Len(bytes)) \o bytes

\* an f64 as its eight bytes: 2.0
F64Two == <<64, 0, 0, 0, 0, 0, 0, 0>>

Header == U16(PgfVersion) \o U16(NumGrammars)

\* the bytes of tests::test_invalid_pgf
BufInvalid == <<0, 1, 2, 3>>

\* a grammar with nothing in it
BufEmpty == Header \o Str16(<<>>) \o U16(0) \o U32(0) \o U32(0)

\* one flag whose literal has the tag 7, then nothing
BufBadFlag == Header \o Str16(<<>>) \o U16(1) \o Str8(<<>>) \o <<7>> \o U32(0) \o U32(0)

\* abstract syntax A with f : C and g : D, no flags, no concrete syntax
BufAbs ==
    Header \o Str16(<<65>>) \o U16(0)
    \o U32(2) \o Str8(<<102>>) \o Str8(<<67>>) \o U32(1) \o F64Two
              \o Str8(<<103>>) \o Str8(<<68>>) \o U32(1) \o F64Two
    \o U32(0)

\* the flag startcat = "C", and f : D
BufStart ==
    Header \o Str16(<<>>) \o U16(1) \o Str8(CidStartcat) \o <<0>> \o Str8(<<67>>)
    \o U32(1) \o Str8(<<102>>) \o Str8(<<68>>) \o U32(1) \o F64Two
    \o U32(0)

\* one concrete syntax L: productions 0 -> {Apply 0 [PArg [] 1], Coerce 1}, cncfun f
\* with lins [0], the sequence [SymKS "a", SymCat 0 0, SymNE], cnccat C = 0..1
BufCnc ==
    Header \o Str16(<<>>) \o U16(0) \o U32(0)
    \o U32(1) \o Str8(<<76>>) \o U16(0)
    \o U32(1) \o U32(0) \o U32(2)
        \o <<0>> \o U32(0) \o U32(1) \o U32(0) \o U32(1)
        \o <<1>> \o U32(1)
    \o U32(1) \o Str8(<<102>>) \o U32(1) \o U32(0)
    \o U32(1) \o U32(3) \o <<3>> \o Str8(<<97>>) \o <<0>> \o U32(0) \o U32(0) \o <<5>>
    \o U32(1) \o Str8(<<67>>) \o U32(0) \o U32(1)
    \o U32(1)

\* a sequence holding a SymKP with one symbol and one alternative
BufKP ==
    Header \o Str16(<<>>) \o U16(0) \o U32(0)
    \o U32(1) \o Str8(<<76>>) \o U16(0)
    \o U32(0) \o U32(0)
    \o U32(1) \o U32(1) \o <<4>> \o U32(1) \o <<3>> \o Str8(<<97>>)
                               \o U32(1) \o U32(1) \o <<5>> \o U32(1) \o Str8(<<98>>)
    \o U32(0)
    \o U32(0)

WholeFiles == {BufEmpty, BufBadFlag, BufAbs, BufStart, BufCnc, BufKP}

\* the bytes written over a byte of a file: tags, counts, and a byte that is not UTF-8
MutBytes == {0, 1, 9, 255}

\* the bytes appended to a file
TrailBytes == {0, 255}

\* how many bytes are appended at most
MaxTrail == 2

\* a file cut short, with one byte replaced, or with bytes appended
Variants(b) ==
    {SubSeq(b, 1, n) : n \in 0..(Len(b) - 1)}
    \cup {[b EXCEPT ![i] = v] : i \in 1..Len(b), v \in MutBytes}
    \cup {b \o t : t \in UNION {[1..n -> TrailBytes] : n \in 1..MaxTrail}}

Buffers == {BufInvalid} \cup WholeFiles \cup UNION {Variants(b) : b \in WholeFiles}

NoPgf == [kind |-> "none"]

InitDecode ==
    /\ pgf = NoPgf
    /\ st = NoState
    /\ res = NoCall
    /\ output = NoOutput

\* parse_pgf(data) in a build whose read_exact does or does not move to the end
\* of the buffer on a short read; runs that loop more than MaxCount times are
\* outside the model
Decode(data, eof_on_err) ==
    /\ res = NoCall
    /\ \E first \in FirstKeys(Cursor(data, eof_on_err)) :
          Let(parse_pgf(data, eof_on_err, first), LAMBDA r :
              /\ ~r.cur.oob
              /\ res' = [call |-> "parse_pgf", data |-> data, eof_on_err |-> eof_on_err,
                         result |-> IF r.ok THEN Ok(r.val)
                                    ELSE [ok |-> FALSE, err |-> r.err],
                         pos |-> r.cur.pos, dropped |-> r.cur.dropped]
              /\ pgf' = IF r.ok THEN r.val ELSE pgf)
    /\ UNCHANGED <<st, output>>

NextDecode == \E data \in Buffers, eof_on_err \in BOOLEAN : Decode(data, eof_on_err)

SpecDecode == InitDecode /\ [][NextDecode]_vars

----------------------------------------------------------------------------
(* Claims about the decoder, checked under SpecDecode.                      *)

Decoded == res.call = "parse_pgf"

DeserializeError == Decoded /\ ~res.result.ok /\ res.result.err.kind = "DeserializeError"

\* the first u16 is 2 and the second is 1
ValidHeader(data) ==
    /\ Len(data) >= 4
    /\ data[1] * 256 + data[2] = 2
    /\ data[3] * 256 + data[4] = 1

\* C8: parse_pgf of a buffer whose version is not 2, whose grammar count is not 1,
\* or whose header cannot be read returns DeserializeError and no grammar; the
\* bytes 00 01 02 03 are such a buffer.
C8_BadHeader ==
    /\ Decoded /\ ~ValidHeader(res.data) => DeserializeError /\ pgf = NoPgf
    /\ ~ValidHeader(BufInvalid)

C8_Witness == DeserializeError /\ res.data = BufInvalid

\* the constructs whose bodies the decoder must not read past an error
NestedBodies ==
    {"flag", "function", "production", "cncfun", "sequence", "symbol", "category"}

\* C9: when the header is valid and a read inside a flag, function, production,
\* concrete function, sequence, symbol or category body fails, parse_pgf returns
\* DeserializeError, never a grammar.
C9_NoSwallowedError ==
    Decoded /\ ValidHeader(res.data) /\ res.dropped \cap NestedBodies # {}
        => DeserializeError

\* C10: whenever parse_pgf returns a grammar, the cursor is at the end of the
\* buffer, so a buffer with bytes after the final concrete is rejected.
C10_NoTrailingBytes ==
    Decoded /\ res.result.ok => res.pos = Len(res.data)

\* the cursor where read_abstract starts, for a buffer whose header and absname are read
AbstractStart(data, eof_on_err) ==
    Let(ReadHeader(Cursor(data, eof_on_err)), LAMBDA header :
    Let(read_string_16(header.cur), LAMBDA absname : read_flags(absname.cur).cur))

\* the categories of the abstract record after k rounds of read_abstract's loop
CatsAfter(data, eof_on_err, k) ==
    Let(read_u32(AbstractStart(data, eof_on_err)), LAMBDA c :
        DOMAIN Repeat(FunBody, k, [cur |-> c.cur, acc |-> EmptyAbstract]).acc.cats)

\* the category that read_abstract inserts first, in file order
FirstInserted(data, eof_on_err, cats) ==
    LET k == CHOOSE i \in 1..MaxCount :
                 /\ CatsAfter(data, eof_on_err, i) # {}
                 /\ \A j \in 1..(i - 1) : CatsAfter(data, eof_on_err, j) = {}
    IN  IF cats = {} THEN None
        ELSE Some(CHOOSE c \in CatsAfter(data, eof_on_err, k) : TRUE)

\* C11: the start category of a decoded grammar is the string value of the global
\* flag startcat when there is one, and otherwise the category that was inserted
\* first into the abstract record, in file order.
C11_StartCat ==
    Decoded /\ res.result.ok =>
        LET g == res.result.val
            inserted == FirstInserted(res.data, res.eof_on_err, DOMAIN g.abstract.cats)
        IN  IF CidStartcat \in DOMAIN g.flags /\ g.flags[CidStartcat].tag = "Str"
            THEN g.startcat = g.flags[CidStartcat].val
            ELSE inserted.some => g.startcat = inserted.val


----------------------------------------------------------------------------
(* The type checker and the query functions, pure functions of a grammar.   *)
(* Their grammars have function types with hypotheses, one or two           *)
(* languages, and concrete flags of every kind.                             *)

Hypo(b, t) == [binding |-> b, ty |-> t]

Explicit(s) == [tag |-> "Explicit", name |-> s]

\* a function type: the hypotheses' categories, then the result category
FunType(args, cat) ==
    mk_type([i \in 1..Len(args) |-> Hypo(Explicit("_"), mk_type(<<>>, args[i], <<>>))],
            cat, <<>>)

Function(t) == [ty |-> t, weight |-> 1, equations |-> None, prob |-> 1]

\* This : Item, Fresh : Quality, Very : Quality -> Quality,
\* Is : Item -> Quality -> Comment
TypedAbstract ==
    [funs |-> [f \in {"This", "Fresh", "Very", "Is"} |->
                 Function(IF f = "This" THEN FunType(<<>>, "Item")
                          ELSE IF f = "Fresh" THEN FunType(<<>>, "Quality")
                          ELSE IF f = "Very" THEN FunType(<<"Quality">>, "Quality")
                          ELSE FunType(<<"Item", "Quality">>, "Comment"))],
     cats |-> [c \in {"Comment", "Item", "Quality"} |-> [hypos |-> <<>>, funs |-> <<>>]]]

Str(s) == [tag |-> "Str", val |-> s]

Flt(d) == [tag |-> "Flt", val |-> d]

S_en_US == <<"e", "n", "_", "U", "S">>

S_under == <<"_", "a", "_", "_">>

S_it == <<"i", "t">>

\* the flag tables of a concrete syntax
CFlags ==
    {EmptyMap,
     [k \in {"language"} |-> Str(S_en_US)],
     [k \in {"language"} |-> Str(S_under)],
     [k \in {"language"} |-> Flt(F64Two)],
     [k \in {"language", "coding"} |-> Str(S_it)],
     [k \in {"coding"} |-> Str(S_en_US)]}

\* a concrete syntax with the flags fl
Flagged(fl) == [(IF fl = EmptyMap THEN CncSlot ELSE CncApply) EXCEPT !.cflags = fl]

\* the concrete tables: FoodEng alone, or FoodEng and FoodIta
ConcreteTables ==
    {[l \in ls |-> IF l = "FoodEng" THEN Flagged(fl)
                   ELSE Flagged([k \in {"language", "coding"} |-> Str(S_it)])] :
        ls \in {{"FoodEng"}, {"FoodEng", "FoodIta"}}, fl \in CFlags}

QueryGrammars ==
    {[absname |-> "Food", concretes |-> cs, abstract |-> TypedAbstract,
      startcat |-> "Comment", flags |-> EmptyMap] : cs \in ConcreteTables}

cat_skeleton(ty) == <<[i \in 1..Len(ty.hypos) |-> ty.hypos[i].ty.category], ty.category>>

TypeCheckError(msg) == Err("TypeCheckError", msg)

\* the Fun arm that compares no category
CheckFun_AnyCategory(g, expr, expected) ==
    IF expr.cid \notin DOMAIN g.abstract.funs
    THEN TypeCheckError(<<"Unknown function: ", expr.cid>>)
    ELSE Ok(<<expr, g.abstract.funs[expr.cid].ty>>)

\* check_expr, the Fun arm
CheckFun(g, expr, expected) ==
    IF expr.cid \notin DOMAIN g.abstract.funs
    THEN TypeCheckError(<<"Unknown function: ", expr.cid>>)
    ELSE Let(g.abstract.funs[expr.cid].ty, LAMBDA fun_type :
             IF fun_type.category = expected.category
             THEN Ok(<<expr, fun_type>>)
             ELSE TypeCheckError(<<"Type mismatch: expected ", expected.category,
                                   ", got ", fun_type.category>>))

RECURSIVE check_expr(_, _, _)
check_expr(g, expr, expected) ==
    IF expr.tag = "Fun" THEN CheckFun(g, expr, expected)
    ELSE IF expr.tag = "App"
    THEN Let(check_expr(g, expr.fn, expected), LAMBDA e1 :
         IF ~e1.ok THEN e1
         ELSE Let(cat_skeleton(e1.val[2]), LAMBDA sk :
              IF sk[1] = <<>> \/ sk[2] # expected.category
              THEN TypeCheckError("Invalid application")
              ELSE Let(check_expr(g, expr.arg, mk_type(<<>>, sk[1][1], <<>>)), LAMBDA e2 :
                   IF ~e2.ok THEN e2
                   ELSE Ok(<<App(e1.val[1], e2.val[1]), expected>>))))
    ELSE TypeCheckError("Unsupported expression for type checking")

InitQuery ==
    /\ pgf \in QueryGrammars
    /\ st = NoState
    /\ res = NoCall
    /\ output = NoOutput

CheckLeaves == {Fun("This"), Fun("Fresh"), Fun("Very"), Fun("Is"), Fun("Nope"), Meta}

CheckExprs == Unsupported \cup UNION {WithApps(CheckLeaves, n) : n \in 0..MaxApps}

CheckTypes ==
    {FunType(<<>>, "Comment"), FunType(<<>>, "Quality"),
     FunType(<<"Quality">>, "Quality"), FunType(<<"Quality">>, "Comment")}

CheckExpr(e, t) ==
    /\ res = NoCall
    /\ res' = [call |-> "check_expr", expr |-> e, expected |-> t,
               result |-> check_expr(pgf, e, t)]
    /\ UNCHANGED <<pgf, st, output>>


\* language::languages: the keys of a HashMap, collected in its iteration order
languages(g) == Perms(DOMAIN g.concretes)

\* categories: the keys of abstract.cats in the map's iteration order
categories(g) == Perms(DOMAIN g.abstract.cats)

\* functions: the keys of abstract.funs in the map's iteration order
functions(g) == Perms(DOMAIN g.abstract.funs)

\* str::replace('_', "-") that stops after the first match
replace_First(s) ==
    [i \in 1..Len(s) |-> IF s[i] = "_" /\ (\A j \in 1..(i - 1) : s[j] # "_") THEN "-" ELSE s[i]]

\* str::replace('_', "-")
replace(s) == [i \in 1..Len(s) |-> IF s[i] = "_" THEN "-" ELSE s[i]]

language_code(g, lang) ==
    IF lang \notin DOMAIN g.concretes THEN None
    ELSE Let(g.concretes[lang].cflags, LAMBDA cflags :
             IF "language" \notin DOMAIN cflags THEN None
             ELSE IF cflags["language"].tag = "Str"
             THEN Some(replace(cflags["language"].val))
             ELSE None)

DigitChars == <<"0", "1", "2", "3", "4", "5", "6", "7", "8", "9">>

RECURSIVE Digits(_)
Digits(n) ==
    IF n < 10 THEN <<DigitChars[n + 1]>>
    ELSE Append(Digits(n \div 10), DigitChars[(n % 10) + 1])

\* the key of a JSON object made from an i32 map key
i32_to_string(n) == IF n < 0 THEN <<"-">> \o Digits(0 - n) ELSE Digits(n)

literal_to_json(lit) == lit.val

cnc_cat_to_json(cat) == [start |-> cat.start, end |-> cat.end]

cnc_fun_to_json(fun) == [name |-> fun.name, lins |-> fun.lins]

p_arg_to_json(arg) == [type |-> "PArg", hypos |-> arg.hypos, fid |-> arg.fid]

production_to_json(prod) ==
    IF prod.tag = "Apply"
    THEN [type |-> "Apply", fid |-> prod.fid,
          args |-> [i \in 1..Len(prod.args) |-> p_arg_to_json(prod.args[i])]]
    ELSE [type |-> "Coerce", arg |-> prod.arg]

RECURSIVE symbol_to_json(_)
sequence_to_json(seq) == [i \in 1..Len(seq) |-> symbol_to_json(seq[i])]

alt_to_json(alt) ==
    [type |-> "Alt", args |-> <<sequence_to_json(alt.symbols), alt.tokens>>]

symbol_to_json(sym) ==
    IF sym.tag \in {"SymCat", "SymLit", "SymVar"}
    THEN [type |-> sym.tag, args |-> <<sym.d, sym.r>>]
    ELSE IF sym.tag = "SymKS" THEN [type |-> "SymKS", args |-> <<sym.tok>>]
    ELSE IF sym.tag = "SymKP"
    THEN [type |-> "SymKP",
          args |-> <<sequence_to_json(sym.symbols),
                     [i \in 1..Len(sym.alts) |-> alt_to_json(sym.alts[i])]>>]
    ELSE [type |-> "SymNE", args |-> <<>>]

\* the orders in which the production sets of a concrete syntax can be iterated
ProdIters(cnc) ==
    {f \in [DOMAIN cnc.productions ->
               UNION {Perms(cnc.productions[k]) : k \in DOMAIN cnc.productions}] :
        \A k \in DOMAIN cnc.productions : f[k] \in Perms(cnc.productions[k])}

\* the "productions" object: one key per fid, written as a decimal string
productions_to_json(productions, iter) ==
    [s \in {i32_to_string(cat) : cat \in DOMAIN productions} |->
        Let(CHOOSE cat \in DOMAIN productions : i32_to_string(cat) = s, LAMBDA cat :
            [i \in 1..Len(iter[cat]) |-> production_to_json(iter[cat][i])])]

concrete_to_json(cnc, iter) ==
    [flags |-> [k \in DOMAIN cnc.cflags |-> literal_to_json(cnc.cflags[k])],
     productions |-> productions_to_json(cnc.productions, iter),
     functions |-> [i \in 1..Len(cnc.cncfuns) |-> cnc_fun_to_json(cnc.cncfuns[i])],
     sequences |-> [i \in 1..Len(cnc.sequences) |-> sequence_to_json(cnc.sequences[i])],
     categories |-> [c \in DOMAIN cnc.cnccats |-> cnc_cat_to_json(cnc.cnccats[c])],
     totalfids |-> cnc.total_cats]

concretes_to_json(concretes, iters) ==
    [lang \in DOMAIN concretes |-> concrete_to_json(concretes[lang], iters[lang])]

\* abstract_to_json that leaves the functions out
abstract_to_json_NoFuns(name, startcat, abs) ==
    [name |-> name, startcat |-> startcat, funs |-> EmptyMap]

abstract_to_json(name, startcat, abs) ==
    [name |-> name, startcat |-> startcat,
     funs |-> [cid \in DOMAIN abs.funs |->
                 Let(cat_skeleton(abs.funs[cid].ty), LAMBDA sk :
                     [args |-> sk[1], cat |-> sk[2]])]]

\* the JSON value that pgf_to_json serializes; serializing a value never fails
pgf_to_json(g, iters) ==
    Ok([abstract |-> abstract_to_json(g.absname, g.startcat, g.abstract),
        concretes |-> concretes_to_json(g.concretes, iters)])

JsonIters(g) ==
    {it \in [DOMAIN g.concretes -> UNION {ProdIters(g.concretes[l]) : l \in DOMAIN g.concretes}] :
        \A l \in DOMAIN g.concretes : it[l] \in ProdIters(g.concretes[l])}

LanguagesCall ==
    /\ res = NoCall
    /\ \E order \in languages(pgf) : res' = [call |-> "languages", result |-> order]
    /\ UNCHANGED <<pgf, st, output>>

CategoriesCall ==
    /\ res = NoCall
    /\ \E order \in categories(pgf) : res' = [call |-> "categories", result |-> order]
    /\ UNCHANGED <<pgf, st, output>>

FunctionsCall ==
    /\ res = NoCall
    /\ \E order \in functions(pgf) : res' = [call |-> "functions", result |-> order]
    /\ UNCHANGED <<pgf, st, output>>

LanguageCode(l) ==
    /\ res = NoCall
    /\ res' = [call |-> "language_code", lang |-> l, result |-> language_code(pgf, l)]
    /\ UNCHANGED <<pgf, st, output>>

PgfToJson ==
    /\ res = NoCall
    /\ \E iters \in JsonIters(pgf) :
         res' = [call |-> "pgf_to_json", result |-> pgf_to_json(pgf, iters)]
    /\ UNCHANGED <<pgf, st, output>>

NextQuery ==
    \/ res = NoCall /\ \E e \in CheckExprs, t \in CheckTypes : CheckExpr(e, t)
    \/ LanguagesCall
    \/ CategoriesCall
    \/ FunctionsCall
    \/ \E l \in Languages \cup {"FoodIta"} : LanguageCode(l)
    \/ PgfToJson

SpecQuery == InitQuery /\ [][NextQuery]_vars


----------------------------------------------------------------------------
(* Claims about the type checker and the query functions *)

\* the type a checked head carries: a function's stored type, and for an
\* application the type it was checked against
HeadType(g, h, t) == IF h.tag = "Fun" THEN g.abstract.funs[h.cid].ty ELSE t

\* the structural rule: which expressions check against which types
RECURSIVE Checks(_, _, _)
Checks(g, e, t) ==
    IF e.tag = "Fun"
    THEN e.cid \in DOMAIN g.abstract.funs /\ g.abstract.funs[e.cid].ty.category = t.category
    ELSE IF e.tag = "App"
    THEN /\ Checks(g, e.fn, t)
         /\ HeadType(g, e.fn, t).hypos # <<>>
         /\ Checks(g, e.arg, mk_type(<<>>, HeadType(g, e.fn, t).hypos[1].ty.category, <<>>))
    ELSE FALSE

\* C12: check_expr succeeds exactly on the expressions the structural rule accepts
\* (a function whose stored category is the expected one; an application whose head
\* checks against the expected type and whose argument checks against the first
\* hypothesis category of the head's type); every failure is a TypeCheckError, and
\* a success returns the expression with the type it was given.
C12_CheckExprStructural ==
    res.call = "check_expr" =>
        /\ res.result.ok <=> Checks(pgf, res.expr, res.expected)
        /\ ~res.result.ok => res.result.err.kind = "TypeCheckError"
        /\ res.result.ok =>
             res.result.val = <<res.expr, HeadType(pgf, res.expr, res.expected)>>

\* an application nested in an application checks, and so does a plain function
C12_Witness ==
    /\ res.call = "check_expr"
    /\ res.result.ok
    /\ res.expr.tag = "App"
    /\ res.expr.fn.tag = "App"


\* the order in which the query grammars are built: functions, categories, languages
InsertionOrder ==
    <<"This", "Fresh", "Very", "Is", "Comment", "Item", "Quality", "FoodEng", "FoodIta">>

\* the keys S in the order of their insertion
Inserted(S) == SelectSeq(InsertionOrder, LAMBDA k : k \in S)

\* C13: languages, categories and functions return the identifiers of the grammar in
\* insertion order, each exactly once.
C13_InsertionOrder ==
    /\ res.call = "languages" => res.result = Inserted(DOMAIN pgf.concretes)
    /\ res.call = "categories" => res.result = Inserted(DOMAIN pgf.abstract.cats)
    /\ res.call = "functions" => res.result = Inserted(DOMAIN pgf.abstract.funs)


\* the language flag of a language, when the language is known and has the flag
LanguageFlag(g, l) ==
    IF l \in DOMAIN g.concretes /\ "language" \in DOMAIN g.concretes[l].cflags
    THEN Some(g.concretes[l].cflags["language"])
    ELSE None

\* C14: language_code returns the language flag's string with every '_' replaced by
\* '-' and every other character kept, and is absent exactly when the language is
\* unknown, the flag is missing or the flag is not a string.
C14_LanguageCode ==
    res.call = "language_code" =>
        LET flag == LanguageFlag(pgf, res.lang)
        IN  /\ res.result.some <=> (flag.some /\ flag.val.tag = "Str")
            /\ res.result.some =>
                 /\ Len(res.result.val) = Len(flag.val.val)
                 /\ \A i \in 1..Len(flag.val.val) :
                      res.result.val[i] = IF flag.val.val[i] = "_" THEN "-" ELSE flag.val.val[i]

\* a flag with several underscores was converted
C14_Witness ==
    /\ res.call = "language_code"
    /\ res.result.some
    /\ Cardinality({i \in 1..Len(res.result.val) : res.result.val[i] = "-"}) > 1


----------------------------------------------------------------------------
(* Claims about the loaded grammar *)

\* every sequence index of every concrete function is an index of sequences
LinsInRange(cnc) ==
    \A i \in 1..Len(cnc.cncfuns) : \A j \in 1..Len(cnc.cncfuns[i].lins) :
        cnc.cncfuns[i].lins[j] >= 0 /\ cnc.cncfuns[i].lins[j] < Len(cnc.sequences)

\* C15: in every grammar that parse_pgf returns, every sequence index stored in the
\* lins of a concrete function lies within the sequences of its concrete syntax.
C15_LinsInRange ==
    Decoded /\ res.result.ok =>
        \A l \in DOMAIN res.result.val.concretes : LinsInRange(res.result.val.concretes[l])


----------------------------------------------------------------------------
(* Claims about the parse state *)

\* C16: no call changes the caller's grammar, and a parse state holds, from its
\* creation on and through every next_state call, a grammar equal to the caller's.
C16_GrammarImmutable ==
    [][pgf' = pgf /\ (st'.kind = "state" => st'.pgf = pgf)]_vars

\* a next_state call has rewritten both tables of a state and its grammar is the caller's
C16_Witness ==
    /\ res.call = "next_state"
    /\ st.kind = "state"
    /\ st.current_pos > 0
    /\ st.passive_items # EmptyMap
    /\ st.pgf = pgf


\* C17: pgf_to_json succeeds; its object has exactly the fields abstract and
\* concretes; abstract carries the abstract name, the start category and one entry
\* of funs per abstract function; concretes has one entry per language.
C17_JsonShape ==
    res.call = "pgf_to_json" =>
        /\ res.result.ok
        /\ DOMAIN res.result.val = {"abstract", "concretes"}
        /\ DOMAIN res.result.val.abstract = {"name", "startcat", "funs"}
        /\ res.result.val.abstract.name = pgf.absname
        /\ res.result.val.abstract.startcat = pgf.startcat
        /\ DOMAIN res.result.val.abstract.funs = DOMAIN pgf.abstract.funs
        /\ DOMAIN res.result.val.concretes = DOMAIN pgf.concretes

\* a grammar with several functions and two languages was converted
C17_Witness ==
    /\ res.call = "pgf_to_json"
    /\ res.result.ok
    /\ Cardinality(DOMAIN res.result.val.abstract.funs) > 1
    /\ Cardinality(DOMAIN res.result.val.concretes) > 1


\* the goal fid of a state: the start of the concrete category it was made for
GoalOf(s) == s.pgf.concretes[s.lang].cnccats[s.typ.category].start

\* the items a table holds under a key
ItemsUnder(table, key) == IF key \in DOMAIN table THEN table[key] ELSE <<>>

\* the Apply productions among the productions of the goal fid
GoalApplies(s) ==
    IF GoalOf(s) \in DOMAIN s.pgf.concretes[s.lang].productions
    THEN {p \in s.pgf.concretes[s.lang].productions[GoalOf(s)] : p.tag = "Apply"}
    ELSE {}

\* those of fid f
AppliesOf(s, f) == {p \in GoalApplies(s) : p.fid = f}

\* C18: the state init_state returns holds active items under the goal fid only, as
\* many of each fid as there are Apply productions of that fid under the goal fid
\* (so none for a Coerce production), each with seqid = cncfuns[fid].lins[0] where
\* that exists, dot 0, no args and no tree; passive is empty, tokens is empty and
\* current_pos is 0.
C18_InitialState ==
    res.call = "init_state" /\ res.result.ok =>
        LET s == res.result.val
            cnc == s.pgf.concretes[s.lang]
            items == ItemsUnder(s.active_items, GoalOf(s))
        IN  /\ DOMAIN s.active_items \subseteq {GoalOf(s)}
            /\ \A f \in {p.fid : p \in GoalApplies(s)} :
                 Cardinality({i \in 1..Len(items) : items[i].fid = f})
                     = Cardinality(AppliesOf(s, f))
            /\ \A i \in 1..Len(items) :
                 /\ AppliesOf(s, items[i].fid) # {}
                 /\ items[i].dot = 0 /\ items[i].args = <<>> /\ items[i].tree = None
                 /\ (items[i].fid < Len(cnc.cncfuns)
                     /\ cnc.cncfuns[items[i].fid + 1].lins # <<>>)
                    => items[i].seqid = cnc.cncfuns[items[i].fid + 1].lins[1]
            /\ s.passive_items = EmptyMap
            /\ s.tokens = <<>>
            /\ s.current_pos = 0

\* a state was made from two Apply productions
C18_Witness ==
    /\ res.call = "init_state"
    /\ res.result.ok
    /\ Len(ItemsUnder(res.result.val.active_items, GoalOf(res.result.val))) > 1


\* a step that is a next_state call which returned
NextStateStep ==
    /\ st.kind = "state"
    /\ st'.kind = "state"
    /\ Len(st'.tokens) = Len(st.tokens) + 1
    /\ res'.call = "next_state"
    /\ res'.result.ok

\* the symbol of an item at its dot, when its sequence exists and the dot is inside it
SymbolAt(s, item) ==
    LET sq == VecGet(s.pgf.concretes[s.lang].sequences, item.seqid)
    IN  IF sq.some /\ item.dot < Len(sq.val) THEN Some(sq.val[item.dot + 1]) ELSE None

\* how many times a list of items holds x
Count(items, x) == Cardinality({i \in 1..Len(items) : items[i] = x})

\* C19: across a next_state call, an active item whose symbol at the dot is SymKS(t)
\* has exactly one successor under the same key, equal to it except for dot + 1, when
\* t is the token of the call, and none when it is not; the item itself is not in the
\* new active table.
C19_TokenScan ==
    [][NextStateStep =>
        \A k \in DOMAIN st.active_items : \A i \in 1..Len(st.active_items[k]) :
            LET item == st.active_items[k][i]
                sym == SymbolAt(st, item)
                successor == [item EXCEPT !.dot = @ + 1]
                new == ItemsUnder(st'.active_items, k)
            IN  sym.some /\ sym.val.tag = "SymKS" =>
                    /\ Count(new, successor) =
                           IF sym.val.tok = res'.token
                           THEN Count(st.active_items[k], item) ELSE 0
                    /\ Count(new, item) = 0]_vars

\* a token was scanned: an active item stands behind a SymKS
C19_Witness ==
    /\ res.call = "next_state"
    /\ res.result.ok
    /\ \E k \in DOMAIN st.active_items : \E i \in 1..Len(st.active_items[k]) :
         /\ st.active_items[k][i].dot > 0
         /\ LET sq == VecGet(st.pgf.concretes[st.lang].sequences, st.active_items[k][i].seqid)
            IN  sq.some /\ sq.val[st.active_items[k][i].dot].tag = "SymKS"


\* App(App(... head, arg1) ..., argn), built from the first n args
RECURSIVE LeftNested(_, _, _)
LeftNested(head, args, n) ==
    IF n = 0 THEN head ELSE App(LeftNested(head, args, n - 1), args[n][2])

\* whether the dot of an item has reached the length of its sequence
Complete(s, item) ==
    LET sq == VecGet(s.pgf.concretes[s.lang].sequences, item.seqid)
    IN  sq.some /\ item.dot >= Len(sq.val)

\* C20: across a next_state call that returns, every active item whose dot has reached
\* the length of its sequence is added to the passive table under its key, with its
\* fid, seqid, dot and args and the tree nested to the left from Fun(cncfuns[fid].name)
\* over its args in order.
C20_Completion ==
    [][NextStateStep =>
        \A k \in DOMAIN st.active_items : \A i \in 1..Len(st.active_items[k]) :
            LET item == st.active_items[k][i]
                name == st.pgf.concretes[st.lang].cncfuns[item.fid + 1].name
                done == [item EXCEPT
                            !.tree = Some(LeftNested(Fun(name), item.args, Len(item.args)))]
            IN  Complete(st, item) =>
                    Count(ItemsUnder(st'.passive_items, k), done)
                        = Count(ItemsUnder(st.passive_items, k), done)
                          + Count(st.active_items[k], item)]_vars

\* an item with two args was completed
C20_Witness ==
    /\ res.call = "next_state"
    /\ res.result.ok
    /\ \E k \in DOMAIN st.passive_items : \E i \in 1..Len(st.passive_items[k]) :
         Len(st.passive_items[k][i].args) > 1


\* the item that coerce propagation makes under cat from a tree under arg
CoerceItem(cat, arg, tree) == Item(cat, 0, 0, <<(<<arg, tree>>)>>, None)

\* the Coerce productions of a fid in the grammar of a state
CoercesOf(s, cat) ==
    IF cat \in DOMAIN s.pgf.concretes[s.lang].productions
    THEN {p \in s.pgf.concretes[s.lang].productions[cat] : p.tag = "Coerce"}
    ELSE {}

\* C21: after every next_state call that returns, for every fid cat with a
\* Coerce(arg) production and every item with a tree under arg in the new passive
\* table, the new active table holds under cat the item (cat, 0, 0, [(arg, tree)],
\* None); and every item with dot 0 in the new active table is such an item, made
\* from a passive item that exists.
C21_CoercePropagation ==
    [][NextStateStep =>
        /\ \A cat \in DOMAIN st.pgf.concretes[st.lang].productions :
             \A p \in CoercesOf(st, cat) :
               \A i \in 1..Len(ItemsUnder(st'.passive_items, p.arg)) :
                 LET pitem == st'.passive_items[p.arg][i]
                 IN  pitem.tree.some =>
                       Count(ItemsUnder(st'.active_items, cat),
                             CoerceItem(cat, p.arg, pitem.tree.val)) > 0
        /\ \A k \in DOMAIN st'.active_items : \A i \in 1..Len(st'.active_items[k]) :
             LET item == st'.active_items[k][i]
             IN  item.dot = 0 =>
                   \E p \in CoercesOf(st, k) :
                     \E j \in 1..Len(ItemsUnder(st'.passive_items, p.arg)) :
                       /\ st'.passive_items[p.arg][j].tree.some
                       /\ item = CoerceItem(k, p.arg, st'.passive_items[p.arg][j].tree.val)]_vars

\* a coerce item stands in the active table after a next_state call
C21_Witness ==
    /\ res.call = "next_state"
    /\ res.result.ok
    /\ \E k \in DOMAIN st.active_items : \E i \in 1..Len(st.active_items[k]) :
         /\ st.active_items[k][i].dot = 0
         /\ Len(st.active_items[k][i].args) = 1


\* C22: across every next_state call, returning or not, every key of the passive
\* table is kept and the items under it are kept, unchanged and in place, in front of
\* whatever the call adds.
C22_PassiveMonotonic ==
    [][st.kind = "state" /\ st'.kind = "state" =>
        \A k \in DOMAIN st.passive_items :
            /\ k \in DOMAIN st'.passive_items
            /\ Len(st'.passive_items[k]) >= Len(st.passive_items[k])
            /\ SubSeq(st'.passive_items[k], 1, Len(st.passive_items[k]))
                   = st.passive_items[k]]_vars

\* a passive item was added behind an older one by a later call
C22_Witness ==
    /\ res.call = "next_state"
    /\ st.kind = "state"
    /\ st.current_pos > 1
    /\ \E k \in DOMAIN st.passive_items :
         /\ Len(st.passive_items[k]) > 1
         /\ st.passive_items[k][1].dot # st.passive_items[k][2].dot


\* C23: in every parse state, every item of the active table has no tree and every
\* item of the passive table has one.
C23_TreeByTable ==
    st.kind = "state" =>
        /\ \A k \in DOMAIN st.active_items : \A i \in 1..Len(st.active_items[k]) :
             st.active_items[k][i].tree = None
        /\ \A k \in DOMAIN st.passive_items : \A i \in 1..Len(st.passive_items[k]) :
             st.passive_items[k][i].tree.some

\* both tables hold items after some tokens
C23_Witness ==
    /\ st.kind = "state"
    /\ st.current_pos > 1
    /\ st.active_items # EmptyMap
    /\ st.passive_items # EmptyMap


\* C24: every next_state call that returns appends exactly its token to the end of
\* tokens and adds one to current_pos, and leaves current_pos equal to the length of
\* tokens, whether or not any item matched the token.
C24_TokensAndPosition ==
    [][NextStateStep =>
        /\ st'.tokens = Append(st.tokens, res'.token)
        /\ st'.current_pos = st.current_pos + 1
        /\ st'.current_pos = Len(st'.tokens)]_vars

\* tokens were fed to a state in which nothing matched them
C24_Witness ==
    /\ res.call = "next_state"
    /\ res.result.ok
    /\ st.current_pos > 1
    /\ st.active_items = EmptyMap
    /\ st.passive_items = EmptyMap


\* the end of parse: ParseOk(trees) gives the trees, ParseFail gives ParseError
parse_result(out) ==
    IF out.kind = "ParseOk" THEN Ok(out.trees) ELSE Err("ParseError", "Parsing failed")

\* inputs that are empty or only whitespace
BlankInputs == {<<>>, <<SP>>, <<SP, SP>>}

\* C25: get_parse_output on a state that init_state has just returned, before any
\* next_state call, returns ParseFail and Leaf("") for every goal type; an empty or
\* whitespace-only input has no tokens, so parse ends on that state with
\* ParseError("Parsing failed").
C25_FreshStateFails ==
    (output.kind = "output" /\ st.tokens = <<>>) =>
        /\ output.out.kind = "ParseFail"
        /\ output.bracketed = Leaf("")
        /\ \A input \in BlankInputs : split_whitespace(input) = <<>>
        /\ parse_result(output.out) = Err("ParseError", "Parsing failed")

\* the output of a fresh state that holds active items was read for its own type
C25_Witness ==
    /\ output.kind = "output"
    /\ st.tokens = <<>>
    /\ st.active_items # EmptyMap
    /\ output.typ = st.typ


\* how many items of a list are x up to their tree
CountLike(items, x) ==
    Cardinality({i \in 1..Len(items) : [items[i] EXCEPT !.tree = None] = x})

\* whether an item has advanced and stands at the end of its sequence
AtEnd(s, item) ==
    LET sq == VecGet(s.pgf.concretes[s.lang].sequences, item.seqid)
    IN  sq.some /\ item.dot > 0 /\ item.dot = Len(sq.val)

\* C26: a next_state call that brings an item to the end of its sequence stores it in
\* the active table and adds no such item to the passive table; the next call that
\* returns adds it to the passive table, whatever its token; every item a returning
\* call adds to the passive table stood in the active table before the call.
C26_PassiveOneCallLater ==
    [][NextStateStep =>
        /\ \A k \in DOMAIN st'.active_items : \A i \in 1..Len(st'.active_items[k]) :
             LET item == st'.active_items[k][i]
             IN  AtEnd(st, item) /\ Count(ItemsUnder(st.active_items, k), item) = 0 =>
                   CountLike(ItemsUnder(st'.passive_items, k), item)
                       = CountLike(ItemsUnder(st.passive_items, k), item)
        /\ \A k \in DOMAIN st.active_items : \A i \in 1..Len(st.active_items[k]) :
             LET item == st.active_items[k][i]
             IN  AtEnd(st, item) =>
                   CountLike(ItemsUnder(st'.passive_items, k), item)
                       = CountLike(ItemsUnder(st.passive_items, k), item)
                         + Count(st.active_items[k], item)
        /\ \A k \in DOMAIN st'.passive_items : \A i \in 1..Len(st'.passive_items[k]) :
             LET item == [st'.passive_items[k][i] EXCEPT !.tree = None]
             IN  CountLike(st'.passive_items[k], item)
                     = CountLike(ItemsUnder(st.passive_items, k), item)
                       + Count(ItemsUnder(st.active_items, k), item)]_vars

\* an item stands at the end of its sequence in the active table and not in the passive
C26_Witness ==
    /\ res.call = "next_state"
    /\ res.result.ok
    /\ \E k \in DOMAIN st.active_items : \E i \in 1..Len(st.active_items[k]) :
         /\ AtEnd(st, st.active_items[k][i])
         /\ CountLike(ItemsUnder(st.passive_items, k), st.active_items[k][i]) = 0


\* every Apply production of the grammar names an existing concrete function
AppliesInRange(cnc) ==
    \A k \in DOMAIN cnc.productions : \A p \in cnc.productions[k] :
        p.tag = "Apply" => p.fid >= 0 /\ p.fid < Len(cnc.cncfuns)

\* C27: in a grammar whose Apply productions all name existing concrete functions, no
\* next_state call indexes cncfuns out of range, coerce items included.
C27_NoIndexPanic ==
    (st.kind = "state" /\ AppliesInRange(st.pgf.concretes[st.lang])) => ~Aborted


\* whether a fid is the goal fid of a state or owns a Coerce production
GoalOrCoerce(s, k) == k = GoalOf(s) \/ CoercesOf(s, k) # {}

\* C28: every key of the active and of the passive table of a parse state is the goal
\* fid or a fid with a Coerce production; and across a next_state call, an active item
\* whose symbol at the dot is a SymCat slot of any other fid gets no successor.
C28_KeysGoalOrCoerce ==
    [][st'.kind = "state" =>
        /\ \A k \in DOMAIN st'.active_items \cup DOMAIN st'.passive_items :
             GoalOrCoerce(st', k)
        /\ NextStateStep =>
             \A k \in DOMAIN st.active_items : \A i \in 1..Len(st.active_items[k]) :
               LET item == st.active_items[k][i]
                   sym == SymbolAt(st, item)
               IN  (sym.some /\ sym.val.tag = "SymCat" /\ ~GoalOrCoerce(st, sym.val.r)) =>
                     \A j \in 1..Len(ItemsUnder(st'.active_items, k)) :
                       [st'.active_items[k][j] EXCEPT !.args = <<>>]
                           # [item EXCEPT !.dot = @ + 1, !.args = <<>>]]_vars

\* items stand under the goal fid and under a fid with a Coerce production
C28_Witness ==
    /\ st.kind = "state"
    /\ \E k \in DOMAIN st.active_items : k # GoalOf(st)
    /\ \E k \in DOMAIN st.passive_items : k = GoalOf(st)


\* C29: in every parse state the dot of an active item whose sequence exists is at
\* most the length of that sequence, and every passive item has an existing sequence
\* and its dot equal to the length of it.
C29_DotWithinSequence ==
    st.kind = "state" =>
        LET sequences == st.pgf.concretes[st.lang].sequences
        IN  /\ \A k \in DOMAIN st.active_items : \A i \in 1..Len(st.active_items[k]) :
                 LET sq == VecGet(sequences, st.active_items[k][i].seqid)
                 IN  sq.some => st.active_items[k][i].dot <= Len(sq.val)
            /\ \A k \in DOMAIN st.passive_items : \A i \in 1..Len(st.passive_items[k]) :
                 LET sq == VecGet(sequences, st.passive_items[k][i].seqid)
                 IN  sq.some /\ st.passive_items[k][i].dot = Len(sq.val)

\* an item has crossed a sequence of two symbols and is passive
C29_Witness ==
    /\ st.kind = "state"
    /\ \E k \in DOMAIN st.passive_items : \E i \in 1..Len(st.passive_items[k]) :
         st.passive_items[k][i].dot > 1


\* both tables of a state are empty after at least one next_state call
DeadChart(s) ==
    /\ s.kind = "state"
    /\ s.current_pos > 0
    /\ s.active_items = EmptyMap
    /\ s.passive_items = EmptyMap

\* C30: from a state whose tables are both empty after a next_state call, every
\* further next_state call returns Ok and leaves both tables empty, and every
\* get_parse_output returns ParseFail.
C30_DeadStaysDead ==
    [][DeadChart(st) =>
        /\ DeadChart(st')
        /\ res'.result.ok
        /\ output'.kind = "output" => output'.out.kind = "ParseFail"]_vars

\* the output of a dead chart was read after further tokens
C30_Witness ==
    /\ DeadChart(st)
    /\ st.current_pos > 2
    /\ res.call = "next_state"
    /\ res.result.ok
    /\ output.kind = "output"
    /\ output.typ = st.typ

====
